---- MODULE Spec2Model ----
(***************************************************************************)
(* Model of the Daikin SmartApp API client                                 *)
(* (custom_components/daikin_smartapp/api.py and const.py).                *)
(*                                                                         *)
(* Python values are represented as follows:                               *)
(*   str            a TLA+ string                                          *)
(*   Optional[x]    <<>> for None and <<x>> for a value x                  *)
(*   float (temp.)  an integer number of tenths of a degree                *)
(*   JSON value     a record [t |-> tag, v |-> payload], tag one of        *)
(*                  "null", "str", "int", "list", "dict"; a dict payload   *)
(*                  is the sequence of its <<key, value>> pairs            *)
(*   dict[str, x]   a function whose DOMAIN is the set of keys             *)
(***************************************************************************)
EXTENDS Integers, Sequences, FiniteSets, TLC

(***************************************************************************)
(* Bounds of the model.                                                    *)
(***************************************************************************)
\* number of distinct non-empty token strings the login endpoint may issue
MaxTok == 2

(***************************************************************************)
(* Constants of const.py.                                                  *)
(***************************************************************************)
AUTH_MODE_ID_TOKEN == "id_token"
AUTH_MODE_ACCESS_TOKEN == "access_token"
MODE_CODE_COOL == "0200"
MODE_CODE_DRY == "0500"
MODE_CODE_FAN == "0000"
POWER_OFF == "00"
POWER_ON == "01"
\* the discovery endpoints, in the order they are tried
API_CREDENTIAL_DISCOVERY_URLS == <<"https://scr.dspsph.com/common/login", "https://proddit.ditdeneb.com/common/login">>

(***************************************************************************)
(* Optional values.                                                        *)
(***************************************************************************)
None == <<>>
Some(x) == <<x>>
IsNone(o) == o = <<>>
\* Python truthiness of an Optional[str]: None and "" are falsy
Truthy(o) == o # <<>> /\ o[1] # ""

(***************************************************************************)
(* Strings: character access, str.strip(), str.isdigit().                  *)
(***************************************************************************)
CharAt(s, i) == SubSeq(s, i, i)
\* the slice s[a-1:b] of Python, which tolerates an end beyond the string
Slice(s, a, b) == IF a > Len(s) \/ b < a THEN "" ELSE SubSeq(s, a, IF b > Len(s) THEN Len(s) ELSE b)
IsSpace(c) == c \in {" ", "\t", "\n"}
IsDecDigit(c) == c \in {"0", "1", "2", "3", "4", "5", "6", "7", "8", "9"}

RECURSIVE LStrip(_)
LStrip(s) == IF Len(s) > 0 /\ IsSpace(CharAt(s, 1)) THEN LStrip(SubSeq(s, 2, Len(s))) ELSE s

RECURSIVE RStrip(_)
RStrip(s) == IF Len(s) > 0 /\ IsSpace(CharAt(s, Len(s))) THEN RStrip(SubSeq(s, 1, Len(s) - 1)) ELSE s

Strip(s) == RStrip(LStrip(s))

IsDigitStr(s) == Len(s) > 0 /\ \A i \in 1..Len(s) : IsDecDigit(CharAt(s, i))

(***************************************************************************)
(* Codec: api.py lines 77-111.                                             *)
(***************************************************************************)
IsHexDigit(c) == c \in {"0", "1", "2", "3", "4", "5", "6", "7", "8", "9", "A", "B", "C", "D", "E", "F", "a", "b", "c", "d", "e", "f"}

HexVal(c) ==
  CASE c = "0" -> 0 [] c = "1" -> 1 [] c = "2" -> 2 [] c = "3" -> 3
    [] c = "4" -> 4 [] c = "5" -> 5 [] c = "6" -> 6 [] c = "7" -> 7
    [] c = "8" -> 8 [] c = "9" -> 9
    [] c \in {"A", "a"} -> 10 [] c \in {"B", "b"} -> 11
    [] c \in {"C", "c"} -> 12 [] c \in {"D", "d"} -> 13
    [] c \in {"E", "e"} -> 14 [] c \in {"F", "f"} -> 15

\* the digit part of an int(value, 16) literal: hex digits, single
\* underscores allowed between digits (and, when lead is TRUE, after a 0x prefix)
IsDigitPart(d, lead) ==
  /\ Len(d) > 0
  /\ \A i \in 1..Len(d) : IsHexDigit(CharAt(d, i)) \/ CharAt(d, i) = "_"
  /\ CharAt(d, Len(d)) # "_"
  /\ (CharAt(d, 1) = "_" => lead)
  /\ \A i \in 1..(Len(d) - 1) : ~(CharAt(d, i) = "_" /\ CharAt(d, i + 1) = "_")

RECURSIVE DigitsValue(_, _)
DigitsValue(d, acc) ==
  IF Len(d) = 0 THEN acc
  ELSE IF CharAt(d, 1) = "_" THEN DigitsValue(SubSeq(d, 2, Len(d)), acc)
  ELSE DigitsValue(SubSeq(d, 2, Len(d)), acc * 16 + HexVal(CharAt(d, 1)))

\* Python's int(value, 16): surrounding whitespace, an optional sign, an
\* optional 0x/0X prefix and underscores between digits are accepted;
\* <<>> stands for ValueError
PyIntBase16(value) ==
  LET s == Strip(value)
      neg == Len(s) > 0 /\ CharAt(s, 1) = "-"
      signed == Len(s) > 0 /\ CharAt(s, 1) \in {"-", "+"}
      u == IF signed THEN SubSeq(s, 2, Len(s)) ELSE s
      pre == Len(u) >= 2 /\ SubSeq(u, 1, 2) \in {"0x", "0X"}
      d == IF pre THEN SubSeq(u, 3, Len(u)) ELSE u
  IN IF IsDigitPart(d, pre)
       THEN Some(IF neg THEN 0 - DigitsValue(d, 0) ELSE DigitsValue(d, 0))
       ELSE None

\* _decode_hex_int(value: str | None) -> int | None
decode_hex_int(value) ==
  IF ~Truthy(value) THEN None ELSE PyIntBase16(value[1])

\* variant: the byte is read unsigned
decode_hex_signed_byte_Unsigned(value) == decode_hex_int(value)

\* _decode_hex_signed_byte(value) -> int | None
decode_hex_signed_byte(value) ==
  LET n == decode_hex_int(value)
  IN IF IsNone(n) THEN None
     ELSE IF n[1] >= 128 THEN Some(n[1] - 256) ELSE n

\* variant: the half step is dropped
decode_hex_half_degree_WholeSteps(value) ==
  LET n == decode_hex_int(value)
  IN IF IsNone(n) THEN None ELSE Some((n[1] \div 2) * 10)

\* _decode_hex_half_degree(value) -> float | None, in tenths of a degree:
\* round(n / 2.0, 1) is n/2 exactly, i.e. 5n tenths
decode_hex_half_degree(value) ==
  LET n == decode_hex_int(value)
  IN IF IsNone(n) THEN None ELSE Some(n[1] * 5)

\* bytes.fromhex(value): ASCII whitespace is skipped between byte pairs;
\* the result is the sequence of byte values, <<>> wrapped; None is ValueError
RECURSIVE BytesFromHex(_, _)
BytesFromHex(s, acc) ==
  IF Len(s) = 0 THEN Some(acc)
  ELSE IF IsSpace(CharAt(s, 1)) THEN BytesFromHex(SubSeq(s, 2, Len(s)), acc)
  ELSE IF Len(s) >= 2 /\ IsHexDigit(CharAt(s, 1)) /\ IsHexDigit(CharAt(s, 2))
    THEN BytesFromHex(SubSeq(s, 3, Len(s)), Append(acc, 16 * HexVal(CharAt(s, 1)) + HexVal(CharAt(s, 2))))
  ELSE None

RECURSIVE LittleEndianUnsigned(_)
LittleEndianUnsigned(bs) ==
  IF Len(bs) = 0 THEN 0 ELSE bs[1] + 256 * LittleEndianUnsigned(Tail(bs))

RECURSIVE Pow256(_)
Pow256(k) == IF k = 0 THEN 1 ELSE 256 * Pow256(k - 1)

\* int.from_bytes(raw, byteorder="little", signed=True)
IntFromBytesLittleSigned(bs) ==
  LET u == LittleEndianUnsigned(bs)
  IN IF Len(bs) > 0 /\ 2 * u >= Pow256(Len(bs)) THEN u - Pow256(Len(bs)) ELSE u

\* _decode_hex_le_i16_half_degree(value) -> float | None, in tenths
decode_hex_le_i16_half_degree(value) ==
  IF ~Truthy(value) \/ Len(value[1]) # 4 THEN None
  ELSE LET raw == BytesFromHex(value[1], <<>>)
       IN IF IsNone(raw) THEN None
          ELSE Some(IntFromBytesLittleSigned(raw[1]) * 5)

(***************************************************************************)
(* JSON values (the parsed response bodies).  A dict payload is the        *)
(* sequence of its <<key, value>> pairs in document order.                 *)
(***************************************************************************)
JNull == [t |-> "null", v |-> <<>>]
JStr(s) == [t |-> "str", v |-> s]
JInt(n) == [t |-> "int", v |-> n]
JList(items) == [t |-> "list", v |-> items]
JDict(pairs) == [t |-> "dict", v |-> pairs]

IsDict(j) == j.t = "dict"
IsList(j) == j.t = "list"
IsStr(j) == j.t = "str"

\* Python truthiness of a JSON value
JTruthy(j) ==
  CASE j.t = "null" -> FALSE
    [] j.t = "str" -> j.v # ""
    [] j.t = "int" -> j.v # 0
    [] j.t = "list" -> Len(j.v) > 0
    [] j.t = "dict" -> Len(j.v) > 0

\* key in d
Has(d, k) == \E i \in 1..Len(d.v) : d.v[i][1] = k

\* d.get(k, default); with duplicate keys the last pair wins, as in json.loads
Get(d, k, default) ==
  IF Has(d, k)
    THEN LET i == CHOOSE i \in 1..Len(d.v) : d.v[i][1] = k /\ \A j \in (i + 1)..Len(d.v) : d.v[j][1] # k
         IN d.v[i][2]
    ELSE default

\* a or b
JOr(a, b) == IF JTruthy(a) THEN a ELSE b

\* str(x) of a JSON scalar
PyStr(j) ==
  CASE j.t = "str" -> j.v
    [] j.t = "int" -> ToString(j.v)
    [] j.t = "null" -> "None"
    [] OTHER -> "<object>"

(***************************************************************************)
(* str.lower() and the character classes of the credential regexes.        *)
(***************************************************************************)
UpperLetters == "ABCDEFGHIJKLMNOPQRSTUVWXYZ"
LowerLetters == "abcdefghijklmnopqrstuvwxyz"

LowerChar(c) ==
  IF \E i \in 1..26 : CharAt(UpperLetters, i) = c
    THEN CharAt(LowerLetters, CHOOSE i \in 1..26 : CharAt(UpperLetters, i) = c)
    ELSE c

RECURSIVE Lower(_)
Lower(s) == IF Len(s) = 0 THEN "" ELSE LowerChar(CharAt(s, 1)) \o Lower(SubSeq(s, 2, Len(s)))

IsLetter(c) == \E i \in 1..26 : CharAt(UpperLetters, i) = c \/ CharAt(LowerLetters, i) = c

(***************************************************************************)
(* _extract_client_credentials: api.py lines 153-174.                      *)
(***************************************************************************)
\* {str(k).lower(): v for k, v in node.items()}: a later pair with the same
\* lowered key replaces the value and keeps the position of the first
RECURSIVE LoweredPairs(_, _)
LoweredPairs(pairs, acc) ==
  IF Len(pairs) = 0 THEN acc
  ELSE LET k == Lower(pairs[1][1])
           val == pairs[1][2]
       IN IF \E i \in 1..Len(acc) : acc[i][1] = k
            THEN LoweredPairs(Tail(pairs), [i \in 1..Len(acc) |-> IF acc[i][1] = k THEN <<k, val>> ELSE acc[i]])
            ELSE LoweredPairs(Tail(pairs), Append(acc, <<k, val>>))

\* the values the dict branch appends to the queue, in items() order
RECURSIVE NestedContainers(_)
NestedContainers(pairs) ==
  IF Len(pairs) = 0 THEN <<>>
  ELSE LET k == pairs[1][1]
           val == pairs[1][2]
           rest == NestedContainers(Tail(pairs))
       IN IF k \in {"client_id", "clientid", "client_secret", "clientsecret"} THEN rest
          ELSE IF IsDict(val) \/ IsList(val) THEN <<val>> \o rest
          ELSE rest

\* the while loop over the queue; queue.pop() takes the last element.
\* Returns None or Some(<<client_id, client_secret>>)
RECURSIVE ExtractFromQueue(_)
ExtractFromQueue(queue) ==
  IF Len(queue) = 0 THEN None
  ELSE LET node == queue[Len(queue)]
           rest == SubSeq(queue, 1, Len(queue) - 1)
       IN IF IsDict(node)
            THEN LET lowered == JDict(LoweredPairs(node.v, <<>>))
                     cid == JOr(Get(lowered, "client_id", JNull), Get(lowered, "clientid", JNull))
                     csec == JOr(Get(lowered, "client_secret", JNull), Get(lowered, "clientsecret", JNull))
                 IN IF IsStr(cid) /\ IsStr(csec) /\ JTruthy(cid) /\ JTruthy(csec)
                      THEN Some(<<Strip(cid.v), Strip(csec.v)>>)
                      ELSE ExtractFromQueue(rest \o NestedContainers(lowered.v))
          ELSE IF IsList(node) THEN ExtractFromQueue(rest \o node.v)
          ELSE ExtractFromQueue(rest)

extract_client_credentials(payload) == ExtractFromQueue(<<payload>>)

(***************************************************************************)
(* _extract_client_credentials_from_text: api.py lines 176-188.            *)
(* re.search(r"client[_-]?<word>['\"\\s:=]+([A-Za-z0-9._-]{n,})", text,    *)
(*           re.IGNORECASE)                                                *)
(***************************************************************************)
\* the class ['\"\\s:=] of the raw-string pattern: quote characters, the
\* backslash, the letter s (either case under IGNORECASE), colon and equals
IsSepChar(c) == c \in {"'", "\"", "\\", "s", "S", ":", "="}
IsCredChar(c) == IsLetter(c) \/ IsDecDigit(c) \/ c \in {".", "_", "-"}

\* length of the maximal run of characters satisfying the class from position p
RECURSIVE RunLen(_, _, _)
RunLen(text, p, isCred) ==
  IF p > Len(text) THEN 0
  ELSE IF (IF isCred THEN IsCredChar(CharAt(text, p)) ELSE IsSepChar(CharAt(text, p)))
    THEN 1 + RunLen(text, p + 1, isCred)
  ELSE 0

\* the match of the pattern anchored at position p, or None: greedy separator
\* run, backtracking until at least n credential characters follow
MatchAt(text, p, word, n) ==
  LET lit == Lower(Slice(text, p, p + 5))
      q0 == p + 6
      q1 == IF q0 <= Len(text) /\ CharAt(text, q0) \in {"_", "-"} THEN q0 + 1 ELSE q0
      \* [_-]? is greedy; without the optional character the literal word would
      \* have to start at _ or -, which it never does
      w == Lower(Slice(text, q1, q1 + Len(word) - 1))
      q2 == q1 + Len(word)
      maxsep == RunLen(text, q2, FALSE)
      good == {k \in 1..maxsep : RunLen(text, q2 + k, TRUE) >= n}
  IN IF lit = "client" /\ w = word /\ good # {}
       THEN LET k == CHOOSE k \in good : \A j \in good : j <= k
            IN Some(SubSeq(text, q2 + k, q2 + k + RunLen(text, q2 + k, TRUE) - 1))
       ELSE None

\* re.search: the match at the leftmost position that has one
RECURSIVE SearchFrom(_, _, _, _)
SearchFrom(text, p, word, n) ==
  IF p > Len(text) THEN None
  ELSE IF MatchAt(text, p, word, n) # None THEN MatchAt(text, p, word, n)
  ELSE SearchFrom(text, p + 1, word, n)

extract_client_credentials_from_text(text) ==
  IF text = "" THEN None
  ELSE LET id_match == SearchFrom(text, 1, "id", 8)
           sec_match == SearchFrom(text, 1, "secret", 16)
       IN IF IsNone(id_match) \/ IsNone(sec_match) THEN None
          ELSE Some(<<id_match[1], sec_match[1]>>)

(***************************************************************************)
(* More string operations: str.split("/"), str.startswith, the `in` test.  *)
(***************************************************************************)
StartsWith(s, prefix) == Len(s) >= Len(prefix) /\ SubSeq(s, 1, Len(prefix)) = prefix

Contains(s, sub) == \E i \in 1..(Len(s) - Len(sub) + 1) : SubSeq(s, i, i + Len(sub) - 1) = sub

RECURSIVE SplitSlash(_, _)
SplitSlash(s, cur) ==
  IF Len(s) = 0 THEN <<cur>>
  ELSE IF CharAt(s, 1) = "/" THEN <<cur>> \o SplitSlash(SubSeq(s, 2, Len(s)), "")
  ELSE SplitSlash(SubSeq(s, 2, Len(s)), cur \o CharAt(s, 1))

\* fr.split("/")
Split(s) == SplitSlash(s, "")

(***************************************************************************)
(* Python dict[str, x] as a function; the empty dict is <<>>.              *)
(***************************************************************************)
EmptyMap == <<>>
MapPut(m, k, val) == [y \in (DOMAIN m) \cup {k} |-> IF y = k THEN val ELSE m[y]]
\* m.get(k) as an Optional
MapGet(m, k) == IF k \in DOMAIN m THEN Some(m[k]) ELSE None

(***************************************************************************)
(* Iterating a JSON value with `for child in value`: a list yields its     *)
(* items; a dict yields its keys and a str its characters, none of which   *)
(* is a dict, so every loop of the client skips them; None and numbers     *)
(* raise TypeError.                                                        *)
(***************************************************************************)
Iterable(j) == j.t \in {"list", "dict", "str"}
Items(j) == IF j.t = "list" THEN j.v ELSE <<>>
\* node.get("pch", [])
Pch(node) == Get(node, "pch", JList(<<>>))
\* child.get("pn") == pn
PnIs(node, pn) == LET val == Get(node, "pn", JNull) IN IsStr(val) /\ val.v = pn

(***************************************************************************)
(* Tree navigator: api.py lines 57-74.  The operators that iterate         *)
(* response data return None when the iteration raises TypeError and       *)
(* Some(result) otherwise.                                                 *)
(***************************************************************************)
\* _child_by_pn(node, pn): Some(Some(child)), Some(None) when there is no
\* such child
child_by_pn(node, pn) ==
  IF ~Iterable(Pch(node)) THEN None
  ELSE LET items == Items(Pch(node))
           hits == {i \in 1..Len(items) : IsDict(items[i]) /\ PnIs(items[i], pn)}
       IN IF hits = {} THEN Some(None)
          ELSE Some(Some(items[CHOOSE i \in hits : \A j \in hits : i <= j]))

RECURSIVE ChildrenFold(_, _)
ChildrenFold(items, out) ==
  IF Len(items) = 0 THEN out
  ELSE LET child == items[1]
       IN IF ~IsDict(child) THEN ChildrenFold(Tail(items), out)
          ELSE IF ~JTruthy(Get(child, "pn", JNull)) THEN ChildrenFold(Tail(items), out)
          ELSE IF Has(child, "pv")
            THEN ChildrenFold(Tail(items), MapPut(out, PyStr(Get(child, "pn", JNull)), PyStr(Get(child, "pv", JNull))))
          ELSE ChildrenFold(Tail(items), out)

\* _children_to_map(node)
children_to_map(node) ==
  IF ~Iterable(Pch(node)) THEN None ELSE Some(ChildrenFold(Items(Pch(node)), EmptyMap))

(***************************************************************************)
(* _merge_unit_edge: api.py lines 328-363.                                 *)
(***************************************************************************)
\* the inner loop: the pv of the last dict child named pn, as
\* str(child.get("pv") or ""), or the previous value when there is none
RECURSIVE LastChildValue(_, _, _)
LastChildValue(items, pn, cur) ==
  IF Len(items) = 0 THEN cur
  ELSE IF IsDict(items[1]) /\ PnIs(items[1], pn)
    THEN LastChildValue(Tail(items), pn,
           LET pv == Get(items[1], "pv", JNull) IN IF JTruthy(pv) THEN PyStr(pv) ELSE "")
  ELSE LastChildValue(Tail(items), pn, cur)

\* the outer loop over edge.get("pch", []); nm is [name, mac]
RECURSIVE ScanNameMac(_, _)
ScanNameMac(nodes, nm) ==
  IF Len(nodes) = 0 THEN Some(nm)
  ELSE LET node == nodes[1]
       IN IF ~IsDict(node) THEN ScanNameMac(Tail(nodes), nm)
          ELSE IF PnIs(node, "adp_d")
            THEN IF ~Iterable(Pch(node)) THEN None
                 ELSE ScanNameMac(Tail(nodes), [nm EXCEPT !.name = LastChildValue(Items(Pch(node)), "name", nm.name)])
          ELSE IF PnIs(node, "adp_i")
            THEN IF ~Iterable(Pch(node)) THEN None
                 ELSE ScanNameMac(Tail(nodes), [nm EXCEPT !.mac = LastChildValue(Items(Pch(node)), "mac", nm.mac)])
          ELSE ScanNameMac(Tail(nodes), nm)

\* DaikinUnit(...) as created by _merge_unit_edge
NewUnit(edge_id, name, mac) ==
  [edge_id |-> edge_id, name |-> name, mac |-> mac,
   power_code |-> None, mode_code |-> None, fan_code |-> None,
   target_temp_c |-> None, room_temp_c |-> None, room_humidity_percent |-> None,
   sensor_temp_1_c |-> None, sensor_temp_2_c |-> None, raw_status |-> EmptyMap]

\* variant: a fragment without name or mac blanks the stored one
merge_unit_edge_Overwrite(units, edge, edge_id) ==
  IF ~Iterable(Pch(edge)) THEN None
  ELSE LET nm == ScanNameMac(Items(Pch(edge)), [name |-> "", mac |-> ""])
       IN IF IsNone(nm) THEN None
          ELSE IF edge_id \in DOMAIN units
            THEN Some([units EXCEPT ![edge_id] = [@ EXCEPT !.name = nm[1].name, !.mac = nm[1].mac]])
          ELSE Some(MapPut(units, edge_id,
                   NewUnit(edge_id, IF nm[1].name # "" THEN nm[1].name ELSE "Daikin " \o edge_id, nm[1].mac)))

\* variant: an existing unit is replaced by a unit built from the fragment
\* and a counter of the merges in its name
merge_unit_edge_Recreate(units, edge, edge_id) ==
  IF ~Iterable(Pch(edge)) THEN None
  ELSE LET nm == ScanNameMac(Items(Pch(edge)), [name |-> "", mac |-> ""])
       IN IF IsNone(nm) THEN None
          ELSE IF edge_id \in DOMAIN units
            THEN Some([units EXCEPT ![edge_id] =
                   [@ EXCEPT !.name = IF nm[1].name # "" THEN nm[1].name \o " (2)" ELSE @,
                             !.mac = IF nm[1].mac # "" THEN nm[1].mac ELSE @]])
          ELSE Some(MapPut(units, edge_id,
                   NewUnit(edge_id, IF nm[1].name # "" THEN nm[1].name ELSE "Daikin " \o edge_id, nm[1].mac)))

\* _merge_unit_edge(units, edge, edge_id): the units map after the call
merge_unit_edge(units, edge, edge_id) ==
  IF ~Iterable(Pch(edge)) THEN None
  ELSE LET nm == ScanNameMac(Items(Pch(edge)), [name |-> "", mac |-> ""])
       IN IF IsNone(nm) THEN None
          ELSE IF edge_id \in DOMAIN units
            THEN Some([units EXCEPT ![edge_id] =
                   [@ EXCEPT !.name = IF nm[1].name # "" THEN nm[1].name ELSE @,
                             !.mac = IF nm[1].mac # "" THEN nm[1].mac ELSE @]])
          ELSE Some(MapPut(units, edge_id,
                   NewUnit(edge_id, IF nm[1].name # "" THEN nm[1].name ELSE "Daikin " \o edge_id, nm[1].mac)))

(***************************************************************************)
(* async_fetch_units, the parsing of the response: api.py lines 374-401.   *)
(***************************************************************************)
\* variant: the identifier is not stripped
EdgeIdOf_NoStrip(edge) == PyStr(Get(edge, "ri", JStr("")))

\* str(edge.get("ri", "")).strip()
EdgeIdOf(edge) == Strip(PyStr(Get(edge, "ri", JStr(""))))

\* for edge in pc: ... (pc a list)
RECURSIVE MergeEdgeList(_, _)
MergeEdgeList(edges, units) ==
  IF Len(edges) = 0 THEN Some(units)
  ELSE LET edge == edges[1]
       IN IF ~IsDict(edge) \/ EdgeIdOf(edge) = "" THEN MergeEdgeList(Tail(edges), units)
          ELSE LET u == merge_unit_edge(units, edge, EdgeIdOf(edge))
               IN IF IsNone(u) THEN None ELSE MergeEdgeList(Tail(edges), u[1])

\* one iteration of `for resp in data.get("responses", [])`
UnitsOfResponse(resp, units) ==
  IF ~IsDict(resp) THEN Some(units)
  ELSE LET fr == PyStr(Get(resp, "fr", JStr("")))
           pc == Get(resp, "pc", JNull)
           parts == Split(fr)
       IN IF fr = "/dsiot/edges"
            THEN IF IsList(pc) THEN MergeEdgeList(pc.v, units)
                 ELSE IF IsDict(pc) /\ EdgeIdOf(pc) # "" THEN merge_unit_edge(units, pc, EdgeIdOf(pc))
                 ELSE Some(units)
          ELSE IF StartsWith(fr, "/dsiot/edges/") /\ Len(parts) >= 4 /\ IsDigitStr(parts[4]) /\ IsDict(pc)
            THEN merge_unit_edge(units, JDict(<< <<"pch", JList(<<pc>>)>> >>), parts[4])
          ELSE Some(units)

RECURSIVE UnitsFold(_, _)
UnitsFold(resps, units) ==
  IF Len(resps) = 0 THEN Some(units)
  ELSE LET u == UnitsOfResponse(resps[1], units)
       IN IF IsNone(u) THEN None ELSE UnitsFold(Tail(resps), u[1])

\* the units map async_fetch_units builds from the batch body, None when
\* the body's shape makes the code raise
ParseUnits(data) ==
  LET resps == Get(data, "responses", JList(<<>>))
  IN IF ~Iterable(resps) THEN None ELSE UnitsFold(Items(resps), EmptyMap)

(***************************************************************************)
(* async_fetch_status, the parsing of the response: api.py lines 409-436.  *)
(***************************************************************************)
\* merged.update({f"{group_name}.{k}": v for k, v in group_map.items()})
MergeGroup(merged, group_name, group_map) ==
  LET keys == {group_name \o "." \o k : k \in DOMAIN group_map}
  IN [y \in (DOMAIN merged) \cup keys |->
        IF y \in keys THEN group_map[CHOOSE k \in DOMAIN group_map : group_name \o "." \o k = y]
        ELSE merged[y]]

RECURSIVE GroupsFold(_, _)
GroupsFold(groups, merged) ==
  IF Len(groups) = 0 THEN Some(merged)
  ELSE LET group == groups[1]
       IN IF ~IsDict(group) THEN GroupsFold(Tail(groups), merged)
          ELSE LET pn == Get(group, "pn", JNull)
                   group_name == IF JTruthy(pn) THEN PyStr(pn) ELSE ""
               IN IF group_name = "" THEN GroupsFold(Tail(groups), merged)
                  ELSE LET group_map == children_to_map(group)
                       IN IF IsNone(group_map) THEN None
                          ELSE GroupsFold(Tail(groups), MergeGroup(merged, group_name, group_map[1]))

\* variant: the path of the item is not tested for the status suffix
StatusOfResponse_AnyPath(resp, out) ==
  IF ~IsDict(resp) THEN Some(out)
  ELSE LET fr == PyStr(Get(resp, "fr", JStr("")))
           parts == Split(fr)
           pc == Get(resp, "pc", JNull)
       IN IF Len(parts) < 4 THEN Some(out)
          ELSE IF ~IsDict(pc) THEN Some(out)
          ELSE LET status_root == child_by_pn(pc, "e_1002")
               IN IF IsNone(status_root) THEN None
                  ELSE IF IsNone(status_root[1]) THEN Some(out)
                  ELSE IF ~Iterable(Pch(status_root[1][1])) THEN None
                  ELSE LET merged == GroupsFold(Items(Pch(status_root[1][1])), EmptyMap)
                       IN IF IsNone(merged) THEN None ELSE Some(MapPut(out, parts[4], merged[1]))

\* one iteration of `for resp in data.get("responses", [])`
StatusOfResponse(resp, out) ==
  IF ~IsDict(resp) THEN Some(out)
  ELSE LET fr == PyStr(Get(resp, "fr", JStr("")))
           parts == Split(fr)
           pc == Get(resp, "pc", JNull)
       IN IF ~Contains(fr, "/adr_0100.dgc_status") THEN Some(out)
          ELSE IF Len(parts) < 4 THEN Some(out)
          ELSE IF ~IsDict(pc) THEN Some(out)
          ELSE LET status_root == child_by_pn(pc, "e_1002")
               IN IF IsNone(status_root) THEN None
                  ELSE IF IsNone(status_root[1]) THEN Some(out)
                  ELSE IF ~Iterable(Pch(status_root[1][1])) THEN None
                  ELSE LET merged == GroupsFold(Items(Pch(status_root[1][1])), EmptyMap)
                       IN IF IsNone(merged) THEN None ELSE Some(MapPut(out, parts[4], merged[1]))

RECURSIVE StatusFold(_, _)
StatusFold(resps, out) ==
  IF Len(resps) = 0 THEN Some(out)
  ELSE LET o == StatusOfResponse(resps[1], out)
       IN IF IsNone(o) THEN None ELSE StatusFold(Tail(resps), o[1])

\* requests_payload of async_fetch_status: one read query per edge id
StatusRequests(edge_ids) ==
  [i \in 1..Len(edge_ids) |->
     [op |-> 2, to |-> "/dsiot/edges/" \o edge_ids[i] \o "/adr_0100.dgc_status?filter=pv"]]

\* the map edge id -> flat raw map that async_fetch_status builds
ParseStatus(data) ==
  LET resps == Get(data, "responses", JList(<<>>))
  IN IF ~Iterable(resps) THEN None ELSE StatusFold(Items(resps), EmptyMap)

\* variant: the target temperature is decoded as whole degrees
DecodeUnit_WholeDegrees(unit, raw) ==
  [unit EXCEPT
     !.raw_status = raw,
     !.mode_code = MapGet(raw, "e_3001.p_01"),
     !.fan_code = MapGet(raw, "e_3003.p_2D"),
     !.power_code = MapGet(raw, "e_A002.p_01"),
     !.target_temp_c = LET n == decode_hex_int(MapGet(raw, "e_3001.p_02"))
                       IN IF IsNone(n) THEN None ELSE Some(n[1] * 10),
     !.room_temp_c = LET room_temp == decode_hex_signed_byte(MapGet(raw, "e_A00B.p_01"))
                     IN IF IsNone(room_temp) THEN None ELSE Some(room_temp[1] * 10),
     !.room_humidity_percent = decode_hex_int(MapGet(raw, "e_A00B.p_02")),
     !.sensor_temp_1_c = decode_hex_le_i16_half_degree(MapGet(raw, "e_A00B.p_05")),
     !.sensor_temp_2_c = decode_hex_le_i16_half_degree(MapGet(raw, "e_A00B.p_06"))]

(***************************************************************************)
(* async_refresh, the decoding loop: api.py lines 445-456.                 *)
(***************************************************************************)
DecodeUnit(unit, raw) ==
  [unit EXCEPT
     !.raw_status = raw,
     !.mode_code = MapGet(raw, "e_3001.p_01"),
     !.fan_code = MapGet(raw, "e_3003.p_2D"),
     !.power_code = MapGet(raw, "e_A002.p_01"),
     !.target_temp_c = decode_hex_half_degree(MapGet(raw, "e_3001.p_02")),
     !.room_temp_c = LET room_temp == decode_hex_signed_byte(MapGet(raw, "e_A00B.p_01"))
                     IN IF IsNone(room_temp) THEN None ELSE Some(room_temp[1] * 10),
     !.room_humidity_percent = decode_hex_int(MapGet(raw, "e_A00B.p_02")),
     !.sensor_temp_1_c = decode_hex_le_i16_half_degree(MapGet(raw, "e_A00B.p_05")),
     !.sensor_temp_2_c = decode_hex_le_i16_half_degree(MapGet(raw, "e_A00B.p_06"))]

\* for edge_id, unit in units.items(): raw = status_map.get(edge_id, {}); ...
DecodeUnits(new_units, status_map) ==
  [e \in DOMAIN new_units |->
     DecodeUnit(new_units[e], IF e \in DOMAIN status_map THEN status_map[e] ELSE EmptyMap)]

(***************************************************************************)
(* _build_mode_patch: api.py lines 461-510.  Ordered dicts (the templates  *)
(* and the caller's overrides) are sequences of <<key, value>> pairs with  *)
(* distinct keys; the patch is a sequence of [pn, pv] records.             *)
(***************************************************************************)
ModeTemplate(mode_code) ==
  CASE mode_code = MODE_CODE_COOL ->
         << <<"p_02", "32">>, <<"p_05", "0F0000">>, <<"p_06", "0F0000">>, <<"p_09", "0700">>, <<"p_0C", "00">> >>
    [] mode_code = MODE_CODE_DRY ->
         << <<"p_22", "020000">>, <<"p_23", "0F0000">>, <<"p_27", "0A00">>, <<"p_31", "00">> >>
    [] mode_code = MODE_CODE_FAN ->
         << <<"p_24", "020000">>, <<"p_25", "050000">>, <<"p_28", "0A00">> >>
    [] OTHER -> <<>>

\* overrides.get(key) as an Optional
PairsGet(pairs, key) ==
  IF \E i \in 1..Len(pairs) : pairs[i][1] = key
    THEN Some(pairs[CHOOSE i \in 1..Len(pairs) : pairs[i][1] = key][2])
    ELSE None

\* variant: the chosen value is emitted whatever its length
TemplateValue_AnyLength(raw, overrides, key, default) ==
  LET o == PairsGet(overrides, key)
      r == MapGet(raw, "e_3001." \o key)
  IN IF Truthy(o) THEN o[1] ELSE IF Truthy(r) THEN r[1] ELSE default

\* overrides.get(key) or raw.get(f"e_3001.{key}") or default, then the
\* fixed-width check
TemplateValue(raw, overrides, key, default) ==
  LET o == PairsGet(overrides, key)
      r == MapGet(raw, "e_3001." \o key)
      value == IF Truthy(o) THEN o[1] ELSE IF Truthy(r) THEN r[1] ELSE default
  IN IF Len(value) # Len(default) THEN default ELSE value

\* variant: an override for p_01 is appended like any other
ExtraOverrides_AllowMode(overrides, existing_keys) ==
  LET Keep(pair) == pair[1] \notin (existing_keys \ {"p_01"})
      kept == SelectSeq(overrides, Keep)
  IN [i \in 1..Len(kept) |-> [pn |-> kept[i][1], pv |-> kept[i][2]]]

\* the final loop: overrides not in the patch yet and not p_01, in order
RECURSIVE ExtraOverrides(_, _)
ExtraOverrides(overrides, existing_keys) ==
  IF Len(overrides) = 0 THEN <<>>
  ELSE IF overrides[1][1] \in existing_keys \/ overrides[1][1] = "p_01"
    THEN ExtraOverrides(Tail(overrides), existing_keys)
  ELSE <<[pn |-> overrides[1][1], pv |-> overrides[1][2]]>> \o ExtraOverrides(Tail(overrides), existing_keys)

\* variant: the overrides outside the template are not appended
build_mode_patch_TemplateOnly(current, mode_code, mode_param_overrides) ==
  LET keys == ModeTemplate(mode_code)
  IN <<[pn |-> "p_01", pv |-> mode_code]>> \o
     [i \in 1..Len(keys) |-> [pn |-> keys[i][1],
                              pv |-> TemplateValue(current.raw_status, mode_param_overrides, keys[i][1], keys[i][2])]]

\* mode_param_overrides is None or an ordered dict, here <<>> or the pairs
build_mode_patch(current, mode_code, mode_param_overrides) ==
  LET raw == current.raw_status
      overrides == mode_param_overrides
      keys == ModeTemplate(mode_code)
      base == <<[pn |-> "p_01", pv |-> mode_code]>> \o
              [i \in 1..Len(keys) |-> [pn |-> keys[i][1], pv |-> TemplateValue(raw, overrides, keys[i][1], keys[i][2])]]
      existing_keys == {base[i].pn : i \in 1..Len(base)}
  IN base \o ExtraOverrides(overrides, existing_keys)

(***************************************************************************)
(* async_write_state, the request it builds: api.py lines 522-557.         *)
(***************************************************************************)
PatchNode(item) == JDict(<< <<"pn", JStr(item.pn)>>, <<"pv", JStr(item.pv)>> >>)

\* mode_code is an Optional[str]
WriteBody(current, edge_id, power_on, mode_code, mode_param_overrides) ==
  LET target_mode == IF Truthy(mode_code) THEN mode_code[1]
                     ELSE IF Truthy(current.mode_code) THEN current.mode_code[1]
                     ELSE MODE_CODE_COOL
      fan_code == IF "e_3003.p_2D" \in DOMAIN current.raw_status THEN current.raw_status["e_3003.p_2D"] ELSE "02"
      mode_patch == build_mode_patch(current, target_mode, mode_param_overrides)
  IN JDict(<< <<"requests", JList(<<
       JDict(<< <<"op", JInt(3)>>,
                <<"to", JStr("/dsiot/edges/" \o edge_id \o "/adr_0100.dgc_status")>>,
                <<"pc", JDict(<< <<"pn", JStr("dgc_status")>>, <<"pch", JList(<<
                   JDict(<< <<"pn", JStr("e_1002")>>, <<"pch", JList(<<
                      JDict(<< <<"pn", JStr("e_3001")>>, <<"pch", JList([i \in 1..Len(mode_patch) |-> PatchNode(mode_patch[i])])>> >>),
                      JDict(<< <<"pn", JStr("e_3003")>>, <<"pch", JList(<<PatchNode([pn |-> "p_2D", pv |-> fan_code])>>)>> >>),
                      JDict(<< <<"pn", JStr("e_A002")>>, <<"pch", JList(<<PatchNode([pn |-> "p_01", pv |-> IF power_on THEN POWER_ON ELSE POWER_OFF])>>)>> >>)
                   >>)>> >>)
                >>)>> >>)>> >>)
     >>)>> >>)

\* the validation of a write response that is HTTP 200 with an object body
\* (api.py lines 571-578): TRUE when the code raises "Write rejected"
WriteRejected(data) ==
  LET responses == Get(data, "responses", JList(<<>>))
  IN /\ JTruthy(responses) /\ IsList(responses)
     /\ IsDict(responses.v[1])
     /\ LET rsc == Get(responses.v[1], "rsc", JNull)
        IN ~(rsc.t = "int" /\ rsc.v \in {2000, 2004})

(***************************************************************************)
(* _token_candidates: api.py lines 227-239.  Tokens are Optional[str].     *)
(***************************************************************************)
\* variant: the preference of auth_mode is ignored
token_candidates_IdFirst(mode, access, id) ==
  LET a == IF Truthy(access) THEN << <<AUTH_MODE_ACCESS_TOKEN, access[1]>> >> ELSE <<>>
      i == IF Truthy(id) THEN << <<AUTH_MODE_ID_TOKEN, id[1]>> >> ELSE <<>>
  IN i \o a

token_candidates(mode, access, id) ==
  LET a == IF Truthy(access) THEN << <<AUTH_MODE_ACCESS_TOKEN, access[1]>> >> ELSE <<>>
      i == IF Truthy(id) THEN << <<AUTH_MODE_ID_TOKEN, id[1]>> >> ELSE <<>>
  IN IF mode = AUTH_MODE_ACCESS_TOKEN THEN a \o i ELSE i \o a

(***************************************************************************)
(* The transport: the responses the server may give.  A response is a      *)
(* record [status, data, text]; data is JNull when the body is not JSON.   *)
(***************************************************************************)
TokenNames == <<"tokA", "tokB", "tokC", "tokD">>
Tokens == {TokenNames[i] : i \in 1..MaxTok}

Resp(status, data, text) == [status |-> status, data |-> data, text |-> text]

\* credential discovery endpoints
DiscoveryResponses ==
  { Resp(404, JNull, "Not Found"),
    Resp(200, JDict(<< <<"data", JDict(<< <<"result", JDict(<< <<"client_id", JStr("abc12345")>>, <<"client_secret", JStr("s3cr3t1234567890")>> >>)>> >>)>> >>),
         "{\"data\":{\"result\":{\"client_id\":\"abc12345\",\"client_secret\":\"s3cr3t1234567890\"}}}"),
    Resp(401, JNull, "client_id=cidB4567 client_secret=secretB890123456") }

\* the token fields <<access_token, id_token, refresh_token>> of an accepted
\* login body: both tokens, only one of them (the other missing or empty),
\* or neither
TokenFields ==
  { <<JStr(tk \o ".access"), JStr(tk \o ".id"), JStr(tk \o ".refresh")>> : tk \in Tokens }
  \cup { <<JStr(tk \o ".access"), JNull, JNull>> : tk \in Tokens }
  \cup { <<JStr(""), JStr(tk \o ".id"), JNull>> : tk \in Tokens }
  \cup { <<JNull, JStr(""), JStr("only.refresh")>> }

LoginBody(rsc, access, id, refresh) ==
  JDict(<< <<"rsc", rsc>>, <<"access_token", access>>, <<"id_token", id>>, <<"refresh_token", refresh>> >>)

LoginResponses ==
  { Resp(500, JNull, "Internal Server Error"),
    Resp(200, JList(<<>>), "[]"),
    Resp(200, LoginBody(JInt(4001), JNull, JNull, JNull), "rejected"),
    Resp(200, JDict(<< <<"access_token", JStr("tokA.access")>> >>), "no rsc"),
    Resp(401, LoginBody(JInt(2000), JStr("tokA.access"), JStr("tokA.id"), JNull), "unauthorized") }
  \cup { Resp(200, LoginBody(JInt(2000), f[1], f[2], f[3]), "ok") : f \in TokenFields }

PNode(pn, pv) == JDict(<< <<"pn", JStr(pn)>>, <<"pv", JStr(pv)>> >>)
GNode(pn, children) == JDict(<< <<"pn", JStr(pn)>>, <<"pch", JList(children)>> >>)
Item(fr, pc) == JDict(<< <<"fr", JStr(fr)>>, <<"pc", pc>>, <<"rsc", JInt(2000)>> >>)
Responses(items) == JDict(<< <<"responses", JList(items)>> >>)

\* bodies answering the discovery batch of async_fetch_units
DiscoveryBodies ==
  { \* one edge, in the edge-list shape, with name and mac
    Responses(<< Item("/dsiot/edges", JList(<<
       JDict(<< <<"ri", JStr("1")>>, <<"pch", JList(<< GNode("adp_d", <<PNode("name", "Living")>>), GNode("adp_i", <<PNode("mac", "AA11")>>) >>)>> >>) >>)) >>),
    \* two edges: a single edge node, a blank edge id, a per-edge fragment
    Responses(<< Item("/dsiot/edges", JDict(<< <<"ri", JStr(" 1 ")>> >>)),
                 Item("/dsiot/edges", JList(<< JDict(<< <<"ri", JStr(" ")>> >>), JStr("x") >>)),
                 Item("/dsiot/edges/2/adp_i", GNode("adp_i", <<PNode("mac", "BB22")>>)) >>),
    \* no edges
    Responses(<<>>),
    \* malformed: responses is null
    JDict(<< <<"responses", JNull>> >>) }

\* bodies answering the status batch of async_fetch_status
StatusBodies ==
  { \* no status, and the malformed body
    Responses(<<>>),
    JDict(<< <<"responses", JNull>> >>),
    \* status of edge 1
    Responses(<< Item("/dsiot/edges/1/adr_0100.dgc_status", GNode("dgc_status", << GNode("e_1002", <<
       GNode("e_A002", <<PNode("p_01", "01")>>),
       GNode("e_3001", <<PNode("p_01", "0200"), PNode("p_02", "32")>>),
       GNode("e_A00B", <<PNode("p_01", "19"), PNode("p_02", "28")>>) >>) >>)) >>),
    \* status of edges 1 and 2, with negative, malformed and 16-bit values
    Responses(<< Item("/dsiot/edges/1/adr_0100.dgc_status", GNode("dgc_status", << GNode("e_1002", <<
       GNode("e_A002", <<PNode("p_01", "00")>>),
       GNode("e_3001", <<PNode("p_01", "0500"), PNode("p_02", "ZZ"), PNode("p_27", "0B00")>>),
       GNode("e_3003", <<PNode("p_2D", "0A00")>>),
       GNode("e_A00B", <<PNode("p_01", "FF"), PNode("p_05", "0A00"), PNode("p_06", "F6FF")>>) >>) >>)),
                 Item("/dsiot/edges/2/adr_0100.dgc_status", GNode("dgc_status", << GNode("e_1002", <<
       GNode("e_3001", <<PNode("p_01", "0000"), PNode("p_02", "2C")>>),
       GNode("e_A00B", <<PNode("p_02", "")>>) >>) >>)) >>) }

\* responses to a batch (multireq) request; text is not modelled beyond
\* the status line, the client only copies it into error messages
BatchResponses(kind) ==
  { Resp(401, JNull, "Unauthorized"), Resp(500, JNull, "Internal Server Error"), Resp(200, JNull, "not json") }
  \cup { Resp(200, b, "json") : b \in IF kind = "units" THEN DiscoveryBodies ELSE StatusBodies }

WriteResult(pairs) == Responses(<< JDict(pairs) >>)

\* bodies of write responses
WriteBodies ==
  { WriteResult(<< <<"fr", JStr("/dsiot/edges/1/adr_0100.dgc_status")>>, <<"rsc", JInt(2000)>> >>),
    WriteResult(<< <<"fr", JStr("/dsiot/edges/1/adr_0100.dgc_status")>>, <<"rsc", JInt(2004)>> >>),
    WriteResult(<< <<"fr", JStr("/dsiot/edges/1/adr_0100.dgc_status")>>, <<"rsc", JInt(4000)>> >>),
    WriteResult(<< <<"fr", JStr("/dsiot/edges/1/adr_0100.dgc_status")>> >>),
    Responses(<<>>),
    JDict(<<>>) }

WriteResponses ==
  { Resp(401, JNull, "Unauthorized"), Resp(500, JNull, "Internal Server Error"), Resp(200, JNull, "not json"),
    Resp(401, WriteResult(<< <<"rsc", JInt(2000)>> >>), "json") }
  \cup { Resp(200, b, "json") : b \in WriteBodies }

\* arguments of async_write_state
EdgeIds == {"1", "2", "9"}
WriteArgs ==
  { [power_on |-> TRUE, mode_code |-> None, mode_param_overrides |-> <<>>],
    [power_on |-> FALSE, mode_code |-> Some(MODE_CODE_DRY), mode_param_overrides |-> << <<"p_02", "2C">>, <<"p_27", "0300">> >>] }

(***************************************************************************)
(* The client (class DaikinApiClient) and the call in progress.            *)
(***************************************************************************)
VARIABLES
  client_id, client_secret,   \* self._client_id, self._client_secret
  access_token, id_token,     \* self._access_token, self._id_token
  refresh_token,              \* self._refresh_token
  auth_mode,                  \* self._auth_mode
  units,                      \* self._units
  pc,                         \* where the running call is suspended
  stack,                      \* the labels the running coroutines return to
  op,                         \* the public method that was called
  di,                         \* async_resolve_client_credentials: request number, url-major
  attempt,                    \* _multireq: attempt; async_write_state: 1 on the retry
  cands, ci,                  \* _multireq: the candidate list being iterated, and the position
  last_status,                \* _multireq: last_status
  phase,                      \* async_refresh: "units" in fetch_units, "status" in fetch_status
  new_units,                  \* async_refresh: units
  mr_data,                    \* the body the last _multireq call of this call returned
  edge_id,                    \* async_write_state: edge_id
  body,                       \* async_write_state: body
  status, data,               \* async_write_state: status, data of the last response
  log,                        \* the requests sent and logins started since the running
                              \* call, or the _multireq call inside it, began
  last_xchg,                  \* the last request sent and its response
  result,                     \* how the call ended: [exc, msg, status]
  ret,                        \* the value the call returned
  units_before,               \* self._units when the call started
  args,                       \* the arguments of the function called on its own
  other                       \* the second call in flight, suspended at a request

clientVars == <<client_id, client_secret, access_token, id_token, refresh_token, auth_mode, units>>
credVars == <<client_id, client_secret>>
tokenVars == <<access_token, id_token, refresh_token>>
mrVars == <<attempt, cands, ci, last_status, phase, new_units, mr_data>>
wrVars == <<edge_id, body, status, data>>
vars == <<client_id, client_secret, access_token, id_token, refresh_token, auth_mode, units,
          pc, stack, op, di, attempt, cands, ci, last_status, phase, new_units, mr_data,
          edge_id, body,
          status, data, log, last_xchg, result, ret, units_before, args, other>>

\* no second call: the host makes one call at a time
NoTask == [on |-> FALSE]

\* a request and its response: the bearer token sent ("" when the request
\* is unauthenticated), the status (0 when the transport raised instead of
\* answering), the parsed body and the raw text
NoXchg == [tok |-> "", status |-> 0, data |-> JNull, text |-> ""]
Xchg(tok, r) == [tok |-> tok, status |-> r.status, data |-> r.data, text |-> r.text]
NoResult == [exc |-> "", msg |-> "", status |-> 0]
Ok == [exc |-> "ok", msg |-> "", status |-> 0]
Exc(exc, msg, st) == [exc |-> exc, msg |-> msg, status |-> st]

\* an entry of log: k is "login" (async_login entered), "disc" (credential
\* discovery request number n, with the payload variant as mode and the
\* url as q), "login_req", "batch" or "write" (a request of attempt n
\* carrying the token of type mode; q is "units" for the discovery batch
\* and "status" for the status batch)
Event(k, mode, n, q) == [k |-> k, mode |-> mode, n |-> n, q |-> q]

\* DaikinApiClient.__init__: credentials as configured (both by
\* async_setup_entry, none by the config flow), no tokens, no units
Init ==
  /\ \E c \in { <<None, None>>, <<Some("abc12345"), Some("s3cr3t1234567890")>> } :
       client_id = c[1] /\ client_secret = c[2]
  /\ auth_mode \in {AUTH_MODE_ID_TOKEN, AUTH_MODE_ACCESS_TOKEN}
  /\ access_token = None /\ id_token = None /\ refresh_token = None
  /\ units = EmptyMap
  /\ pc = "idle" /\ stack = <<>> /\ op = ""
  /\ di = 0 /\ attempt = 0 /\ cands = <<>> /\ ci = 0 /\ last_status = 0
  /\ phase = "" /\ new_units = EmptyMap /\ mr_data = JNull
  /\ edge_id = "" /\ body = JNull /\ status = 0 /\ data = JNull
  /\ log = <<>> /\ last_xchg = NoXchg /\ result = NoResult /\ ret = None
  /\ units_before = units
  /\ args = <<>>
  /\ other = NoTask

localsUnchanged == UNCHANGED <<di, mrVars, wrVars>>

\* an exception leaves every coroutine of the call
Raise(exc, msg, st) ==
  /\ pc' = "done" /\ stack' = <<>> /\ result' = Exc(exc, msg, st) /\ ret' = None

\* `return` of the innermost coroutine
Return(val) ==
  IF stack = <<>>
    THEN pc' = "done" /\ stack' = <<>> /\ result' = Ok /\ ret' = Some(val)
    ELSE pc' = Head(stack) /\ stack' = Tail(stack) /\ UNCHANGED <<result, ret>>

\* a call of a coroutine at label callee that resumes the caller at label back
Call(callee, back) == pc' = callee /\ stack' = <<back>> \o stack /\ UNCHANGED <<result, ret>>

Goto(label) == pc' = label /\ UNCHANGED <<stack, result, ret>>

Begin(name) == pc = "idle" /\ op' = name /\ log' = <<>> /\ last_xchg' = NoXchg /\ units_before' = units

(***************************************************************************)
(* async_resolve_client_credentials: api.py lines 190-225.                 *)
(***************************************************************************)
\* the public method is called
CallResolve ==
  /\ Begin("resolve")
  /\ Goto("resolve")
  /\ UNCHANGED clientVars /\ localsUnchanged
  /\ UNCHANGED <<args, other>>

\* variant: discovery is started even when both credentials are known
ResolveEnter_NoEarlyReturn ==
  /\ pc = "resolve"
  /\ Goto("disc_req") /\ di' = 1
  /\ UNCHANGED <<clientVars, op, mrVars, wrVars, log, last_xchg, units_before>>
  /\ UNCHANGED <<args, other>>

\* entry: the early return when both credentials are known
ResolveEnter ==
  /\ pc = "resolve"
  /\ IF Truthy(client_id) /\ Truthy(client_secret)
       THEN Return(<<client_id[1], client_secret[1]>>) /\ UNCHANGED di
       ELSE Goto("disc_req") /\ di' = 1
  /\ UNCHANGED <<clientVars, op, mrVars, wrVars, log, last_xchg, units_before>>
  /\ UNCHANGED <<args, other>>

\* payload_variants of async_resolve_client_credentials, by the keys they carry
PayloadVariants == <<"user_id,password,uuid", "username,password,uuid", "user_id,password", "username,password">>

\* variant: the payload variants are the outer loop
DiscoveryUrl_VariantMajor(n) == API_CREDENTIAL_DISCOVERY_URLS[((n - 1) % Len(API_CREDENTIAL_DISCOVERY_URLS)) + 1]

\* the url and the payload of request number n of the nested loops
\* `for url in API_CREDENTIAL_DISCOVERY_URLS: for payload in payload_variants`
DiscoveryUrl(n) == API_CREDENTIAL_DISCOVERY_URLS[((n - 1) \div Len(PayloadVariants)) + 1]
DiscoveryPayload(n) == PayloadVariants[((n - 1) % Len(PayloadVariants)) + 1]

\* variant: only the parsed body is searched
ResolvedFrom_JsonOnly(r) ==
  IF IsDict(r.data) THEN extract_client_credentials(r.data) ELSE None

\* what one discovery response resolves to: the JSON search, then the text
\* search, then the text search again for 400/401/403
ResolvedFrom(r) ==
  LET fromData == IF IsDict(r.data) THEN extract_client_credentials(r.data) ELSE None
      fromText == extract_client_credentials_from_text(r.text)
  IN IF fromData # None THEN fromData
     ELSE IF fromText # None THEN fromText
     ELSE IF r.status \in {400, 401, 403} /\ r.text # "" THEN extract_client_credentials_from_text(r.text)
     ELSE None

\* one iteration of the url/payload loops: request number di is sent and
\* answered
DiscoveryRequest ==
  /\ pc = "disc_req"
  /\ \E r \in DiscoveryResponses :
       LET resolved == ResolvedFrom(r)
       IN /\ log' = Append(log, Event("disc", DiscoveryPayload(di), di, DiscoveryUrl(di))) /\ last_xchg' = Xchg("", r)
          /\ IF resolved # None
               THEN /\ client_id' = Some(resolved[1][1])
                    /\ client_secret' = Some(resolved[1][2])
                    /\ Return(resolved[1])
                    /\ UNCHANGED di
               ELSE /\ UNCHANGED credVars
                    /\ IF di = Len(PayloadVariants) * Len(API_CREDENTIAL_DISCOVERY_URLS)
                         THEN Raise("DaikinAuthError", "Could not resolve app client credentials from server.", 0) /\ UNCHANGED di
                         ELSE Goto("disc_req") /\ di' = di + 1
  /\ UNCHANGED <<tokenVars, auth_mode, units, op, mrVars, wrVars, units_before>>
  /\ UNCHANGED <<args, other>>

(***************************************************************************)
(* async_login: api.py lines 274-297.                                      *)
(***************************************************************************)
CallLogin ==
  /\ Begin("login")
  /\ Goto("login")
  /\ UNCHANGED clientVars /\ localsUnchanged
  /\ UNCHANGED <<args, other>>

\* entry: await self.async_resolve_client_credentials()
LoginEnter ==
  /\ pc = "login"
  /\ log' = Append(log, Event("login", "", 0, "")) /\ UNCHANGED last_xchg
  /\ Call("resolve", "login_req")
  /\ UNCHANGED <<clientVars, op, units_before>> /\ localsUnchanged
  /\ UNCHANGED <<args, other>>

\* data.get(name) of the login body, as stored in the client
TokenField(d, name) == LET val == Get(d, name, JNull) IN IF IsStr(val) THEN Some(val.v) ELSE None

\* variant: a token type missing from the response keeps its old value
LoginRequest_CarryOver ==
  /\ pc = "login_req"
  /\ \E r \in LoginResponses :
       /\ log' = Append(log, Event("login_req", "", 0, "")) /\ last_xchg' = Xchg("", r)
       /\ IF r.status # 200 \/ ~IsDict(r.data)
            THEN Raise("DaikinAuthError", "Login failed", r.status) /\ UNCHANGED tokenVars
            ELSE IF Get(r.data, "rsc", JNull) # JInt(2000)
              THEN Raise("DaikinAuthError", "Login rejected", r.status) /\ UNCHANGED tokenVars
            ELSE /\ access_token' = (IF TokenField(r.data, "access_token") = None THEN access_token ELSE TokenField(r.data, "access_token"))
                 /\ id_token' = (IF TokenField(r.data, "id_token") = None THEN id_token ELSE TokenField(r.data, "id_token"))
                 /\ refresh_token' = (IF TokenField(r.data, "refresh_token") = None THEN refresh_token ELSE TokenField(r.data, "refresh_token"))
                 /\ IF ~Truthy(access_token') /\ ~Truthy(id_token')
                      THEN Raise("DaikinAuthError", "Login succeeded but no token fields were returned.", r.status)
                      ELSE Return(<<>>)
  /\ UNCHANGED <<credVars, auth_mode, units, op, units_before>> /\ localsUnchanged
  /\ UNCHANGED <<args, other>>

\* variant: the result code of the login body is not looked at
LoginRequest_AnyRsc ==
  /\ pc = "login_req"
  /\ \E r \in LoginResponses :
       /\ log' = Append(log, Event("login_req", "", 0, "")) /\ last_xchg' = Xchg("", r)
       /\ IF r.status # 200 \/ ~IsDict(r.data)
            THEN Raise("DaikinAuthError", "Login failed", r.status) /\ UNCHANGED tokenVars
            ELSE /\ access_token' = TokenField(r.data, "access_token")
                 /\ id_token' = TokenField(r.data, "id_token")
                 /\ refresh_token' = TokenField(r.data, "refresh_token")
                 /\ IF ~Truthy(access_token') /\ ~Truthy(id_token')
                      THEN Raise("DaikinAuthError", "Login succeeded but no token fields were returned.", r.status)
                      ELSE Return(<<>>)
  /\ UNCHANGED <<credVars, auth_mode, units, op, units_before>> /\ localsUnchanged
  /\ UNCHANGED <<args, other>>

\* the login request is sent and answered
LoginRequest ==
  /\ pc = "login_req"
  /\ \E r \in LoginResponses :
       /\ log' = Append(log, Event("login_req", "", 0, "")) /\ last_xchg' = Xchg("", r)
       /\ IF r.status # 200 \/ ~IsDict(r.data)
            THEN Raise("DaikinAuthError", "Login failed", r.status) /\ UNCHANGED tokenVars
            ELSE IF Get(r.data, "rsc", JNull) # JInt(2000)
              THEN Raise("DaikinAuthError", "Login rejected", r.status) /\ UNCHANGED tokenVars
            ELSE /\ access_token' = TokenField(r.data, "access_token")
                 /\ id_token' = TokenField(r.data, "id_token")
                 /\ refresh_token' = TokenField(r.data, "refresh_token")
                 /\ IF ~Truthy(access_token') /\ ~Truthy(id_token')
                      THEN Raise("DaikinAuthError", "Login succeeded but no token fields were returned.", r.status)
                      ELSE Return(<<>>)
  /\ UNCHANGED <<credVars, auth_mode, units, op, units_before>> /\ localsUnchanged
  /\ UNCHANGED <<args, other>>

(***************************************************************************)
(* _ensure_auth (api.py lines 299-301), inlined in its two callers: login  *)
(* when neither token is stored, then continue at label next.              *)
(***************************************************************************)
\* variant: no login when no token is stored
EnsureAuth_NoLogin(next) == Goto(next)

EnsureAuth(next) ==
  IF ~Truthy(id_token) /\ ~Truthy(access_token) THEN Call("login", next) ELSE Goto(next)

(***************************************************************************)
(* async_refresh with async_fetch_units, async_fetch_status and _multireq: *)
(* api.py lines 303-326 and 365-459.                                       *)
(***************************************************************************)
\* async_refresh is called: fetch_units enters _multireq
CallRefresh ==
  /\ Begin("refresh")
  /\ Goto("multireq")
  /\ phase' = "units" /\ new_units' = EmptyMap
  /\ UNCHANGED <<clientVars, di, attempt, cands, ci, last_status, mr_data, wrVars>>
  /\ UNCHANGED <<args, other>>

\* _multireq entry: _ensure_auth, last_status = 0, attempt 0
MultireqEnter ==
  /\ pc = "multireq"
  /\ EnsureAuth("mr_pass")
  /\ attempt' = 0 /\ last_status' = 0
  /\ log' = <<>> /\ last_xchg' = NoXchg
  /\ UNCHANGED <<clientVars, op, di, cands, ci, phase, new_units, mr_data, wrVars, units_before>>
  /\ UNCHANGED <<args, other>>

\* variant: the second pass iterates the candidates of the first
MultireqPass_KeepCandidates ==
  /\ pc = "mr_pass"
  /\ cands' = IF attempt = 0 THEN token_candidates(auth_mode, access_token, id_token) ELSE cands
  /\ ci' = 1
  /\ IF cands' = <<>> THEN Call("login", "mr_after_login") ELSE Goto("mr_send")
  /\ UNCHANGED <<clientVars, op, di, attempt, last_status, phase, new_units, mr_data, wrVars, log, last_xchg, units_before>>
  /\ UNCHANGED <<args, other>>

\* `for mode, token in self._token_candidates()`: the list is built once per
\* attempt; with no candidate the loop body is skipped and login follows
MultireqPass ==
  /\ pc = "mr_pass"
  /\ cands' = token_candidates(auth_mode, access_token, id_token)
  /\ ci' = 1
  /\ IF cands' = <<>> THEN Call("login", "mr_after_login") ELSE Goto("mr_send")
  /\ UNCHANGED <<clientVars, op, di, attempt, last_status, phase, new_units, mr_data, wrVars, log, last_xchg, units_before>>
  /\ UNCHANGED <<args, other>>

\* variant: an empty discovery returns without clearing the cache
AfterFetchUnits_KeepCache(d) ==
  LET parsed == ParseUnits(d)
  IN IF IsNone(parsed)
       THEN Raise("TypeError", "unexpected body shape", 0) /\ UNCHANGED <<units, phase, new_units>>
     ELSE IF parsed[1] = EmptyMap
       THEN /\ pc' = "done" /\ stack' = <<>> /\ result' = Ok /\ ret' = Some(EmptyMap)
            /\ UNCHANGED <<units, phase, new_units>>
     ELSE /\ new_units' = parsed[1]
          /\ phase' = "status"
          /\ Goto("multireq")
          /\ UNCHANGED units

\* variant: the discovered units are put in the cache before the status
\* is fetched
AfterFetchUnits_StoreDiscovered(d) ==
  LET parsed == ParseUnits(d)
  IN IF IsNone(parsed)
       THEN Raise("TypeError", "unexpected body shape", 0) /\ UNCHANGED <<units, phase, new_units>>
     ELSE IF parsed[1] = EmptyMap
       THEN /\ units' = EmptyMap
            /\ pc' = "done" /\ stack' = <<>> /\ result' = Ok /\ ret' = Some(EmptyMap)
            /\ UNCHANGED <<phase, new_units>>
     ELSE /\ new_units' = parsed[1]
          /\ phase' = "status"
          /\ Goto("multireq")
          /\ units' = parsed[1]

\* what the caller of _multireq does with the returned body
\* async_fetch_units, then async_refresh up to the next await
AfterFetchUnits(d) ==
  LET parsed == ParseUnits(d)
  IN IF IsNone(parsed)
       THEN Raise("TypeError", "unexpected body shape", 0) /\ UNCHANGED <<units, phase, new_units>>
     ELSE IF parsed[1] = EmptyMap
       THEN /\ units' = EmptyMap
            /\ pc' = "done" /\ stack' = <<>> /\ result' = Ok /\ ret' = Some(EmptyMap)
            /\ UNCHANGED <<phase, new_units>>
     ELSE /\ new_units' = parsed[1]
          /\ phase' = "status"
          /\ Goto("multireq")
          /\ UNCHANGED units

\* variant: the discovered units are stored before the status is parsed
AfterFetchStatus_StoreFirst(d) ==
  LET status_map == ParseStatus(d)
  IN IF IsNone(status_map)
       THEN Raise("TypeError", "unexpected body shape", 0) /\ units' = new_units /\ UNCHANGED <<phase, new_units>>
       ELSE /\ units' = DecodeUnits(new_units, status_map[1])
            /\ pc' = "done" /\ stack' = <<>> /\ result' = Ok /\ ret' = Some(units')
            /\ UNCHANGED <<phase, new_units>>

\* async_fetch_status, then async_refresh to its end
AfterFetchStatus(d) ==
  LET status_map == ParseStatus(d)
  IN IF IsNone(status_map)
       THEN Raise("TypeError", "unexpected body shape", 0) /\ UNCHANGED <<units, phase, new_units>>
       ELSE /\ units' = DecodeUnits(new_units, status_map[1])
            /\ pc' = "done" /\ stack' = <<>> /\ result' = Ok /\ ret' = Some(units')
            /\ UNCHANGED <<phase, new_units>>

\* variant: a successful batch request does not lock auth_mode
MultireqRequest_KeepMode ==
  /\ pc = "mr_send"
  /\ \E r \in BatchResponses(phase) :
       /\ log' = Append(log, Event("batch", cands[ci][1], attempt, phase)) /\ last_xchg' = Xchg(cands[ci][2], r)
       /\ last_status' = r.status
       /\ IF r.status = 200 /\ IsDict(r.data)
            THEN /\ UNCHANGED auth_mode
                 /\ mr_data' = r.data
                 /\ IF phase = "units" THEN AfterFetchUnits(r.data) ELSE AfterFetchStatus(r.data)
                 /\ UNCHANGED ci
            ELSE /\ UNCHANGED <<auth_mode, units, phase, new_units, mr_data>>
                 /\ IF ci < Len(cands)
                      THEN Goto("mr_send") /\ ci' = ci + 1
                      ELSE Call("login", "mr_after_login") /\ UNCHANGED ci
  /\ UNCHANGED <<credVars, tokenVars, op, di, attempt, cands, wrVars, units_before>>
  /\ UNCHANGED <<args, other>>

\* one batch request with candidate ci is sent and answered
MultireqRequest ==
  /\ pc = "mr_send"
  /\ \E r \in BatchResponses(phase) :
       /\ log' = Append(log, Event("batch", cands[ci][1], attempt, phase)) /\ last_xchg' = Xchg(cands[ci][2], r)
       /\ last_status' = r.status
       /\ IF r.status = 200 /\ IsDict(r.data)
            THEN /\ auth_mode' = cands[ci][1]
                 /\ mr_data' = r.data
                 /\ IF phase = "units" THEN AfterFetchUnits(r.data) ELSE AfterFetchStatus(r.data)
                 /\ UNCHANGED ci
            ELSE /\ UNCHANGED <<auth_mode, units, phase, new_units, mr_data>>
                 /\ IF ci < Len(cands)
                      THEN Goto("mr_send") /\ ci' = ci + 1
                      ELSE Call("login", "mr_after_login") /\ UNCHANGED ci
  /\ UNCHANGED <<credVars, tokenVars, op, di, attempt, cands, wrVars, units_before>>
  /\ UNCHANGED <<args, other>>

\* variant: the passes are repeated until a batch request succeeds
MultireqAfterLogin_Unbounded ==
  /\ pc = "mr_after_login"
  /\ Goto("mr_pass") /\ attempt' = 1
  /\ UNCHANGED <<clientVars, op, di, cands, ci, last_status, phase, new_units, mr_data, wrVars, log, last_xchg, units_before>>
  /\ UNCHANGED <<args, other>>

\* the login at the end of an attempt has returned: next attempt, or the
\* raise after the loop
MultireqAfterLogin ==
  /\ pc = "mr_after_login"
  /\ IF attempt + 1 < 2
       THEN Goto("mr_pass") /\ attempt' = attempt + 1
       ELSE Raise("DaikinApiError", "multireq failed after token fallback", last_status) /\ UNCHANGED attempt
  /\ UNCHANGED <<clientVars, op, di, cands, ci, last_status, phase, new_units, mr_data, wrVars, log, last_xchg, units_before>>
  /\ UNCHANGED <<args, other>>

(***************************************************************************)
(* async_write_state: api.py lines 512-578.                                *)
(***************************************************************************)
\* variant: the edge id is not looked up before authenticating
CallWrite_NoLookup ==
  /\ Begin("write_state")
  /\ \E e \in EdgeIds, a \in WriteArgs :
       /\ edge_id' = e
       /\ body' = IF e \in DOMAIN units
                    THEN WriteBody(units[e], e, a.power_on, a.mode_code, a.mode_param_overrides)
                    ELSE JNull
       /\ attempt' = 0
       /\ EnsureAuth("wr_send")
  /\ UNCHANGED <<clientVars, di, cands, ci, last_status, phase, new_units, mr_data, status, data>>
  /\ UNCHANGED <<args, other>>

\* the call up to its first await
CallWrite ==
  /\ Begin("write_state")
  /\ \E e \in EdgeIds, a \in WriteArgs :
       /\ edge_id' = e
       /\ IF e \notin DOMAIN units
            THEN Raise("DaikinApiError", "Unknown edge_id", 0) /\ UNCHANGED <<body, attempt>>
            ELSE /\ body' = WriteBody(units[e], e, a.power_on, a.mode_code, a.mode_param_overrides)
                 /\ attempt' = 0
                 /\ EnsureAuth("wr_send")
  /\ UNCHANGED <<clientVars, di, cands, ci, last_status, phase, new_units, mr_data, status, data>>
  /\ UNCHANGED <<args, other>>

\* variant: every failed first request is retried after a login
RetryOn401_AnyFailure(n, st) == n = 0 /\ st # 200

\* `if status == 401:` after the first request (n requests were retried so
\* far)
RetryOn401(n, st) == n = 0 /\ st = 401

\* variant: the request is retried without a login
WriteRequest_NoRelogin ==
  /\ pc = "wr_send"
  /\ LET candidates == token_candidates(auth_mode, access_token, id_token)
     IN IF candidates = <<>>
          THEN /\ Raise("DaikinAuthError", "No auth token available.", 0)
               /\ UNCHANGED <<status, data, attempt, log, last_xchg>>
          ELSE \E r \in WriteResponses :
                 /\ log' = Append(log, Event("write", candidates[1][1], attempt, "")) /\ last_xchg' = Xchg(candidates[1][2], r)
                 /\ status' = r.status /\ data' = r.data
                 /\ IF RetryOn401(attempt, r.status)
                      THEN Goto("wr_send") /\ attempt' = 1
                      ELSE /\ UNCHANGED attempt
                           /\ IF r.status # 200 \/ ~IsDict(r.data)
                                THEN Raise("DaikinApiError", "Write failed", r.status)
                              ELSE IF WriteRejected(r.data)
                                THEN Raise("DaikinApiError", "Write rejected", r.status)
                              ELSE Return(<<>>)
  /\ UNCHANGED <<clientVars, op, di, cands, ci, last_status, phase, new_units, mr_data, edge_id, body, units_before>>
  /\ UNCHANGED <<args, other>>

\* variant: an accepted write drops the written unit from the cache
WriteRequest_DropWritten ==
  /\ pc = "wr_send"
  /\ LET candidates == token_candidates(auth_mode, access_token, id_token)
     IN IF candidates = <<>>
          THEN /\ Raise("DaikinAuthError", "No auth token available.", 0)
               /\ UNCHANGED <<status, data, attempt, log, last_xchg, units>>
          ELSE \E r \in WriteResponses :
                 /\ log' = Append(log, Event("write", candidates[1][1], attempt, "")) /\ last_xchg' = Xchg(candidates[1][2], r)
                 /\ status' = r.status /\ data' = r.data
                 /\ IF RetryOn401(attempt, r.status)
                      THEN Call("login", "wr_send") /\ attempt' = 1 /\ UNCHANGED units
                      ELSE /\ UNCHANGED attempt
                           /\ IF r.status # 200 \/ ~IsDict(r.data)
                                THEN Raise("DaikinApiError", "Write failed", r.status) /\ UNCHANGED units
                              ELSE IF WriteRejected(r.data)
                                THEN Raise("DaikinApiError", "Write rejected", r.status) /\ UNCHANGED units
                              ELSE Return(<<>>) /\ units' = [e \in DOMAIN units \ {edge_id} |-> units[e]]
  /\ UNCHANGED <<credVars, tokenVars, auth_mode, op, di, cands, ci, last_status, phase, new_units, mr_data, edge_id, body, units_before>>
  /\ UNCHANGED <<args, other>>

\* self._request("PUT", MULTIREQ_PATH, json_body=body, auth=True), first
\* (attempt = 0) or retried (attempt = 1), and the code after it
WriteRequest ==
  /\ pc = "wr_send"
  /\ LET candidates == token_candidates(auth_mode, access_token, id_token)
     IN IF candidates = <<>>
          THEN /\ Raise("DaikinAuthError", "No auth token available.", 0)
               /\ UNCHANGED <<status, data, attempt, log, last_xchg>>
          ELSE \E r \in WriteResponses :
                 /\ log' = Append(log, Event("write", candidates[1][1], attempt, "")) /\ last_xchg' = Xchg(candidates[1][2], r)
                 /\ status' = r.status /\ data' = r.data
                 /\ IF RetryOn401(attempt, r.status)
                      THEN Call("login", "wr_send") /\ attempt' = 1
                      ELSE /\ UNCHANGED attempt
                           /\ IF r.status # 200 \/ ~IsDict(r.data)
                                THEN Raise("DaikinApiError", "Write failed", r.status)
                              ELSE IF WriteRejected(r.data)
                                THEN Raise("DaikinApiError", "Write rejected", r.status)
                              ELSE Return(<<>>)
  /\ UNCHANGED <<clientVars, op, di, cands, ci, last_status, phase, new_units, mr_data, edge_id, body, units_before>>
  /\ UNCHANGED <<args, other>>

(***************************************************************************)
(* The transport raises (network failure) instead of answering; the        *)
(* client does not catch it.                                               *)
(***************************************************************************)
TransportFailure ==
  /\ pc \in {"disc_req", "login_req", "mr_send", "wr_send"}
  /\ LET candidates == token_candidates(auth_mode, access_token, id_token)
         sent == CASE pc = "disc_req" -> <<Event("disc", DiscoveryPayload(di), di, DiscoveryUrl(di)), "">>
                   [] pc = "login_req" -> <<Event("login_req", "", 0, ""), "">>
                   [] pc = "mr_send" -> <<Event("batch", cands[ci][1], attempt, phase), cands[ci][2]>>
                   [] pc = "wr_send" -> <<Event("write", candidates[1][1], attempt, ""), candidates[1][2]>>
     IN /\ pc = "wr_send" => candidates # <<>>
        /\ log' = Append(log, sent[1])
        /\ last_xchg' = [tok |-> sent[2], status |-> 0, data |-> JNull, text |-> ""]
  /\ Raise("TransportError", "transport", 0)
  /\ UNCHANGED <<clientVars, op, units_before>> /\ localsUnchanged
  /\ UNCHANGED <<args, other>>

\* the caller has the outcome; the client is idle again
Finish ==
  /\ pc = "done"
  /\ pc' = "idle" /\ stack' = <<>> /\ result' = NoResult /\ ret' = None
  /\ di' = 0 /\ attempt' = 0 /\ cands' = <<>> /\ ci' = 0 /\ last_status' = 0
  /\ phase' = "" /\ new_units' = EmptyMap /\ mr_data' = JNull
  /\ edge_id' = "" /\ body' = JNull /\ status' = 0 /\ data' = JNull
  /\ op' = "" /\ log' = <<>> /\ last_xchg' = NoXchg /\ units_before' = units
  /\ UNCHANGED clientVars
  /\ UNCHANGED <<args, other>>

Next ==
  \/ CallResolve \/ ResolveEnter \/ DiscoveryRequest
  \/ CallLogin \/ LoginEnter \/ LoginRequest
  \/ CallRefresh \/ MultireqEnter \/ MultireqPass \/ MultireqRequest \/ MultireqAfterLogin
  \/ CallWrite \/ WriteRequest
  \/ TransportFailure
  \/ Finish

Spec == Init /\ [][Next]_vars

\* a step of a call that has started and not ended: the coroutine runs, or
\* the transport answers (or fails) the request it awaits
Running == pc \notin {"idle", "done"}
RunningStep == Running /\ Next

\* the host runs a coroutine that can run and the transport answers every
\* request; when the host makes its calls is left open
LiveSpec == Init /\ [][Next]_vars /\ WF_vars(RunningStep)

(***************************************************************************)
(* Two calls in flight.  The client has no lock; the host may start a      *)
(* write_state while a refresh awaits a response, and the other way round. *)
(* The coroutine that is not running is kept in `other` with its locals;   *)
(* the event loop switches between the two where the running one awaits    *)
(* the network (the request labels) or has no call in progress.  A request *)
(* and its response are one step of the coroutine that awaits it, taken    *)
(* when the response arrives; what the other coroutine does during the     *)
(* await are the steps it takes before that step.                          *)
(***************************************************************************)
SuspensionPoints == {"disc_req", "login_req", "mr_send", "wr_send"}

\* the locals of the running coroutine
Locals ==
  [pc |-> pc, stack |-> stack, op |-> op, di |-> di, attempt |-> attempt, cands |-> cands, ci |-> ci,
   last_status |-> last_status, phase |-> phase, new_units |-> new_units, mr_data |-> mr_data,
   edge_id |-> edge_id, body |-> body, status |-> status, data |-> data, log |-> log,
   last_xchg |-> last_xchg, result |-> result, ret |-> ret, units_before |-> units_before]

IdleTask ==
  [pc |-> "idle", stack |-> <<>>, op |-> "", di |-> 0, attempt |-> 0, cands |-> <<>>, ci |-> 0,
   last_status |-> 0, phase |-> "", new_units |-> EmptyMap, mr_data |-> JNull,
   edge_id |-> "", body |-> JNull, status |-> 0, data |-> JNull, log |-> <<>>,
   last_xchg |-> NoXchg, result |-> NoResult, ret |-> None, units_before |-> EmptyMap]

\* the event loop runs the other coroutine; when the host serializes its
\* calls it does so only between calls
Switch ==
  /\ other.on
  /\ pc \in SuspensionPoints \cup {"idle", "done"}
  /\ other.serialized => (pc \in {"idle", "done"} /\ other.locals.pc \in {"idle", "done"})
  /\ other' = [other EXCEPT !.task = 3 - @, !.locals = Locals]
  /\ pc' = other.locals.pc /\ stack' = other.locals.stack /\ op' = other.locals.op
  /\ di' = other.locals.di /\ attempt' = other.locals.attempt
  /\ cands' = other.locals.cands /\ ci' = other.locals.ci
  /\ last_status' = other.locals.last_status /\ phase' = other.locals.phase
  /\ new_units' = other.locals.new_units /\ mr_data' = other.locals.mr_data
  /\ edge_id' = other.locals.edge_id /\ body' = other.locals.body
  /\ status' = other.locals.status /\ data' = other.locals.data
  /\ log' = other.locals.log /\ last_xchg' = other.locals.last_xchg
  /\ result' = other.locals.result /\ ret' = other.locals.ret
  /\ units_before' = other.locals.units_before
  /\ UNCHANGED <<clientVars, args>>

\* the host cancels the running call where it awaits the network:
\* CancelledError is raised at the await and caught nowhere
Cancel ==
  /\ other.on
  /\ pc \in SuspensionPoints
  /\ Raise("CancelledError", "", 0)
  /\ UNCHANGED <<clientVars, op, log, last_xchg, units_before, args, other>> /\ localsUnchanged

\* the answers of the server in this specification: 401, a login answered
\* with the second token set (both tokens, or the access token alone), the
\* well-formed discovery and status bodies, an accepted write
Offered(x) ==
  \/ x = NoXchg
  \/ x.status = 401 /\ x.data = JNull
  \/ /\ x.status = 200 /\ IsDict(x.data)
     /\ \/ x.text = "ok" /\ Get(x.data, "access_token", JNull) = JStr(TokenNames[2] \o ".access")
        \/ x.text = "json" /\ IsList(Get(x.data, "responses", JNull)) /\ ~WriteRejected(x.data)

\* a step of the running coroutine: the first task makes one refresh call,
\* the second one write_state call for edge 1
TaskStep ==
  /\ other.on
  /\ pc # "done"
  /\ Next
  /\ pc = "idle" => (op' = (IF other.task = 2 THEN "refresh" ELSE "write_state") /\ edge_id' \in {"", "1"})
  /\ Offered(last_xchg')

\* a client that has logged in and refreshed before, and two idle tasks
ConcInit ==
  /\ client_id = Some("abc12345") /\ client_secret = Some("s3cr3t1234567890")
  /\ access_token = Some(TokenNames[1] \o ".access") /\ id_token = Some(TokenNames[1] \o ".id")
  /\ refresh_token = Some(TokenNames[1] \o ".refresh")
  /\ auth_mode \in {AUTH_MODE_ID_TOKEN, AUTH_MODE_ACCESS_TOKEN}
  /\ \/ units = EmptyMap
     \/ \E d \in DiscoveryBodies, st \in StatusBodies :
          /\ ParseUnits(d) # None /\ ParseStatus(st) # None
          /\ DOMAIN ParseUnits(d)[1] = {"1"} /\ DOMAIN ParseStatus(st)[1] = {"1"}
          /\ units = DecodeUnits(ParseUnits(d)[1], ParseStatus(st)[1])
  /\ pc = "idle" /\ stack = <<>> /\ op = ""
  /\ di = 0 /\ attempt = 0 /\ cands = <<>> /\ ci = 0 /\ last_status = 0
  /\ phase = "" /\ new_units = EmptyMap /\ mr_data = JNull
  /\ edge_id = "" /\ body = JNull /\ status = 0 /\ data = JNull
  /\ log = <<>> /\ last_xchg = NoXchg /\ result = NoResult /\ ret = None
  /\ units_before = units
  /\ args = <<>>
  /\ \E b \in BOOLEAN : other = [on |-> TRUE, serialized |-> b, task |-> 2, locals |-> IdleTask]

ConcNext ==
  \/ TaskStep
  \/ Switch
  \/ Cancel

ConcSpec == ConcInit /\ [][ConcNext]_vars

(***************************************************************************)
(* The functions of the client called on their own, each on inputs drawn   *)
(* by the initial state: op names the function, args holds its arguments   *)
(* (the fields of the client it reads are the client's variables), ret     *)
(* its value.                                                              *)
(***************************************************************************)
\* no coroutine is running
IdleLocals ==
  /\ pc = "idle" /\ stack = <<>>
  /\ di = 0 /\ attempt = 0 /\ cands = <<>> /\ ci = 0 /\ last_status = 0
  /\ phase = "" /\ mr_data = JNull
  /\ edge_id = "" /\ body = JNull /\ status = 0 /\ data = JNull
  /\ log = <<>> /\ last_xchg = NoXchg /\ result = NoResult /\ ret = None
  /\ other = NoTask

\* a client without credentials, tokens and units
FreshClient ==
  /\ client_id = None /\ client_secret = None
  /\ access_token = None /\ id_token = None /\ refresh_token = None
  /\ auth_mode = AUTH_MODE_ID_TOKEN
  /\ units = EmptyMap /\ units_before = EmptyMap

\* the function returns val
FnReturn(val) ==
  /\ pc = "idle"
  /\ pc' = "done" /\ result' = Ok /\ ret' = Some(val)
  /\ UNCHANGED <<clientVars, stack, op, di, mrVars, wrVars, log, last_xchg, units_before, args, other>>

\* what a token field of the client may hold
StoredTokens ==
  {None, Some("")} \cup {Some(tk \o ".access") : tk \in Tokens} \cup {Some(tk \o ".id") : tk \in Tokens}

InitTokenCandidates ==
  /\ IdleLocals /\ op = "_token_candidates" /\ args = <<>> /\ new_units = EmptyMap
  /\ client_id = None /\ client_secret = None /\ units = EmptyMap /\ units_before = EmptyMap
  /\ auth_mode \in {AUTH_MODE_ID_TOKEN, AUTH_MODE_ACCESS_TOKEN}
  /\ access_token \in StoredTokens /\ id_token \in StoredTokens
  /\ refresh_token = None

ApplyTokenCandidates ==
  /\ op = "_token_candidates"
  /\ FnReturn(token_candidates(auth_mode, access_token, id_token))

\* raw_status maps of the unit a mode patch is built for
PatchRawStatuses ==
  { EmptyMap,
    MapPut(EmptyMap, "e_3001.p_02", "2C"),
    MapPut(EmptyMap, "e_3001.p_02", "2C0"),
    MapPut(MapPut(MapPut(EmptyMap, "e_3001.p_02", ""), "e_3001.p_27", "0300"), "e_3001.p_22", "0200"),
    MapPut(MapPut(MapPut(MapPut(EmptyMap, "e_3001.p_05", "0A0000"), "e_3001.p_0C", "01"), "e_3001.p_24", "030000"), "e_3001.p_28", "0B") }

\* mode codes: the three templated ones and one without a template
PatchModeCodes == {MODE_CODE_COOL, MODE_CODE_DRY, MODE_CODE_FAN, "0300"}

\* mode_param_overrides: None or {} (both <<>>), or a dict in its order
PatchOverrides ==
  { <<>>,
    << <<"p_02", "2C">> >>,
    << <<"p_02", "300">>, <<"p_99", "">> >>,
    << <<"p_01", "0500">>, <<"p_2D", "0A00">> >>,
    << <<"p_2D", "0300">>, <<"p_27", "0300">>, <<"p_01", "">>, <<"p_0C", "">>, <<"p_0A", "1">> >>,
    << <<"p_28", "0C00">>, <<"p_26", "0B00">>, <<"p_24", "03">>, <<"p_09", "0800">> >> }

InitBuildModePatch ==
  /\ IdleLocals /\ FreshClient /\ op = "_build_mode_patch" /\ new_units = EmptyMap
  /\ \E raw \in PatchRawStatuses, mode_code \in PatchModeCodes, overrides \in PatchOverrides :
       args = [current |-> DecodeUnit(NewUnit("1", "Daikin 1", ""), raw),
               mode_code |-> mode_code, mode_param_overrides |-> overrides]

ApplyBuildModePatch ==
  /\ op = "_build_mode_patch"
  /\ FnReturn(build_mode_patch(args.current, args.mode_code, args.mode_param_overrides))

\* longest sequence of edge fragments merged into one units dict
MaxFragments == 3

\* an edge fragment by what it supplies: the name and the mac are absent
\* (None) or the pv of a name / mac child, which may be empty
FragmentInputs ==
  { [edge_id |-> "1", name |-> n, mac |-> m] :
      n \in {None, Some(""), Some("Living"), Some("Den")},
      m \in {None, Some("AA11"), Some("CC33")} }
  \cup { [edge_id |-> "2", name |-> None, mac |-> None],
         [edge_id |-> "2", name |-> Some("Bedroom"), mac |-> Some("BB22")] }

\* the edge object of a fragment: an adp_d node when it has a name, an
\* adp_i node when it has a mac, among nodes the merge skips
Fragment(f) ==
  JDict(<< <<"ri", JStr(f.edge_id)>>,
           <<"pch", JList(
              << JStr("skipped") >>
              \o (IF f.name = None THEN <<>>
                  ELSE << GNode("adp_d", << PNode("timezone", "UTC"), PNode("name", f.name[1]) >>) >>)
              \o << GNode("adr_0100", <<>>) >>
              \o (IF f.mac = None THEN <<>>
                  ELSE << GNode("adp_i", << PNode("mac", f.mac[1]), PNode("ver", "1_2_3") >>) >>))>> >>)

\* async_fetch_units starts from `units = {}` and merges fragment after
\* fragment
InitMergeUnitEdge ==
  /\ IdleLocals /\ FreshClient /\ op = "_merge_unit_edge" /\ new_units = EmptyMap
  /\ \E n \in 0..MaxFragments : \E fs \in [1..n -> FragmentInputs] :
       args = [fragments |-> fs, merged |-> <<>>]

\* one call of _merge_unit_edge, for the next fragment
ApplyMergeUnitEdge ==
  /\ op = "_merge_unit_edge" /\ pc = "idle"
  /\ args.fragments # <<>>
  /\ LET f == Head(args.fragments)
         merged == merge_unit_edge(new_units, Fragment(f), f.edge_id)
     IN IF IsNone(merged)
          THEN /\ pc' = "done" /\ result' = Exc("TypeError", "unexpected body shape", 0)
               /\ UNCHANGED <<new_units, args>>
          ELSE /\ new_units' = merged[1]
               /\ args' = [fragments |-> Tail(args.fragments), merged |-> Append(args.merged, f)]
               /\ UNCHANGED <<pc, result>>
  /\ UNCHANGED <<clientVars, stack, op, di, attempt, cands, ci, last_status, phase, mr_data,
                 wrVars, log, last_xchg, ret, units_before, other>>

\* climate.py, async_set_temperature: the largest half-step count written
MaxHalfSteps == 255

\* int(round(temp_c * 2)) for a temperature given in tenths of a degree:
\* the nearest integer to tenths / 5 (no tie occurs)
HalfSteps(tenths) ==
  IF tenths % 5 <= 2 THEN tenths \div 5 ELSE (tenths \div 5) + 1

\* f"{n:02X}" for n >= 0: upper-case hex digits, zero-padded to two
HexDigitsUpper == <<"0", "1", "2", "3", "4", "5", "6", "7", "8", "9", "A", "B", "C", "D", "E", "F">>
RECURSIVE FormatHexUpper(_)
FormatHexUpper(n) ==
  IF n < 16 THEN HexDigitsUpper[n + 1]
  ELSE FormatHexUpper(n \div 16) \o HexDigitsUpper[(n % 16) + 1]
Format02X(n) == IF n < 16 THEN "0" \o FormatHexUpper(n) ELSE FormatHexUpper(n)

\* variant: only negative half-step counts are refused
set_temperature_p02_NoUpperLimit(tenths) ==
  LET half_steps == HalfSteps(tenths)
  IN IF half_steps < 0 THEN None ELSE Some(Format02X(half_steps))

\* the p_02 override async_set_temperature writes, None when it returns
\* without writing
set_temperature_p02(tenths) ==
  LET half_steps == HalfSteps(tenths)
  IN IF half_steps < 0 \/ half_steps > MaxHalfSteps THEN None ELSE Some(Format02X(half_steps))

\* temperatures in tenths of a degree, from below 0 to above 127.5
TemperatureInputs == (0 - 10)..(5 * MaxHalfSteps + 10)

InitSetTemperature ==
  /\ IdleLocals /\ FreshClient /\ op = "async_set_temperature" /\ new_units = EmptyMap
  /\ \E t \in TemperatureInputs : args = [temperature |-> t]

\* the value written for the temperature and what a refresh decodes from it
ApplySetTemperature ==
  /\ op = "async_set_temperature"
  /\ LET p02_hex == set_temperature_p02(args.temperature)
     IN FnReturn([p02_hex |-> p02_hex,
                  target_temp_c |-> IF p02_hex = None THEN None ELSE decode_hex_half_degree(p02_hex)])

\* the decode helpers, each called on its own
DecodeOps == {"_decode_hex_int", "_decode_hex_signed_byte",
              "_decode_hex_half_degree", "_decode_hex_le_i16_half_degree"}

\* values handed to a decode helper: a missing value, the empty string,
\* every string of one or two ValueChars (the hex digits and some other
\* characters), every string of four WordChars, and some of other lengths
DecodeInputs ==
  LET ValueChars == {"0", "1", "2", "3", "4", "5", "6", "7", "8", "9",
                     "A", "B", "C", "D", "E", "F", "a", "b", "c", "d", "e", "f",
                     " ", "G", "x", "-", "+", "_"}
      WordChars == {"0", "1", "7", "8", "A", "F", "f", " ", "x", "G"}
  IN {None, Some("")}
       \cup {Some(a) : a \in ValueChars}
       \cup {Some(a \o b) : a \in ValueChars, b \in ValueChars}
       \cup {Some(a \o b \o c \o d) : a \in WordChars, b \in WordChars, c \in WordChars, d \in WordChars}
       \cup {Some(v) : v \in {"080", "0FF", "07F", "100", "1FF", "0x1A", "0X1a", "1_A", "1__A",
                             "+1A", "-1A", " 1A", "1A ", "0x", "_1A", "1A_", "00080", "0007F",
                             "0A000", "0A0", "0A00FF", "0A 00", "FF7F00", "12G4F", "FFFFFF"}}

InitDecodeHex ==
  /\ IdleLocals /\ FreshClient /\ new_units = EmptyMap
  /\ op \in DecodeOps
  /\ \E v \in DecodeInputs : args = [value |-> v]

\* the helper named by op returns its value
ApplyDecodeHex ==
  /\ op \in DecodeOps
  /\ FnReturn(CASE op = "_decode_hex_int" -> decode_hex_int(args.value)
               [] op = "_decode_hex_signed_byte" -> decode_hex_signed_byte(args.value)
               [] op = "_decode_hex_half_degree" -> decode_hex_half_degree(args.value)
               [] op = "_decode_hex_le_i16_half_degree" -> decode_hex_le_i16_half_degree(args.value))

\* most response items of a status batch
MaxItems == 3

\* response items of a status batch: status of edge 1 and of edge 2, a
\* second status of edge 1, a status whose groups and parameters are partly
\* unnamed or without value, an item of another path, one without an object
\* payload, one without e_1002, one whose path has the suffix but no edge
\* id, and an item that is no object
StatusItems ==
  { Item("/dsiot/edges/1/adr_0100.dgc_status", GNode("dgc_status", << GNode("e_1002", <<
       GNode("e_A002", <<PNode("p_01", "01")>>),
       GNode("e_3001", <<PNode("p_01", "0200"), PNode("p_02", "32")>>),
       GNode("e_A00B", <<PNode("p_01", "FF"), PNode("p_05", "0A00")>>) >>) >>)),
    Item("/dsiot/edges/2/adr_0100.dgc_status", GNode("dgc_status", << GNode("e_1002", <<
       GNode("e_3001", <<PNode("p_01", "0000"), PNode("p_02", "2C")>>) >>) >>)),
    Item("/dsiot/edges/1/adr_0100.dgc_status?filter=pv", GNode("dgc_status", << GNode("e_1002", <<
       GNode("e_3001", <<PNode("p_01", "0500")>>) >>) >>)),
    Item("/dsiot/edges/2/adr_0100.dgc_status", GNode("dgc_status", << GNode("e_1003", <<>>), GNode("e_1002", <<
       JStr("skipped"),
       GNode("", <<PNode("p_01", "01")>>),
       JDict(<< <<"pch", JList(<<PNode("p_01", "02")>>)>> >>),
       GNode("e_3001", << PNode("p_02", "2C"), JDict(<< <<"pn", JStr("p_03")>> >>), JDict(<< <<"pv", JStr("04")>> >>),
                          PNode("", "05"), JInt(6), PNode("p_02", "30") >>),
       GNode("e_A002", <<>>),
       GNode("e_3001", <<PNode("p_01", "0200")>>) >>) >>)),
    Item("/dsiot/edges/1/adp_i", GNode("adp_i", << GNode("e_1002", <<GNode("e_3001", <<PNode("p_01", "0200")>>)>>) >>)),
    Item("/dsiot/edges/1/adr_0100.dgc_status", JStr("e_1002")),
    Item("/dsiot/edges/1/adr_0100.dgc_status", GNode("dgc_status", << GNode("e_1003", <<GNode("e_3001", <<PNode("p_01", "0200")>>)>>) >>)),
    Item("edges/1/adr_0100.dgc_status", GNode("dgc_status", << GNode("e_1002", <<GNode("e_3001", <<PNode("p_01", "0300")>>)>>) >>)),
    JStr("/dsiot/edges/1/adr_0100.dgc_status") }

\* async_fetch_status(list(units)) for the discovered units and the body
\* that answers its batch, followed by the decoding loop of async_refresh
InitFetchStatus ==
  /\ IdleLocals /\ FreshClient /\ op = "async_fetch_status"
  /\ \E edge_ids \in {<<"1">>, <<"1", "2">>, <<"2", "1">>} :
       /\ new_units = [e \in {edge_ids[i] : i \in 1..Len(edge_ids)} |-> NewUnit(e, "Daikin " \o e, "")]
       /\ \/ \E n \in 0..MaxItems : \E items \in [1..n -> StatusItems] :
               args = [edge_ids |-> edge_ids, data |-> Responses(items)]
          \/ args = [edge_ids |-> edge_ids, data |-> JDict(<< <<"responses", JNull>> >>)]

ApplyFetchStatus ==
  /\ op = "async_fetch_status" /\ pc = "idle"
  /\ LET requests_payload == StatusRequests(args.edge_ids)
         status_map == ParseStatus(args.data)
     IN IF IsNone(status_map)
          THEN /\ pc' = "done" /\ result' = Exc("TypeError", "unexpected body shape", 0)
               /\ UNCHANGED <<clientVars, stack, op, di, mrVars, wrVars, log, last_xchg, ret, units_before, args, other>>
          ELSE FnReturn([requests_payload |-> requests_payload,
                         status_map |-> status_map[1],
                         units |-> DecodeUnits(new_units, status_map[1])])

\* response items of a discovery batch: the edge-list shape (one edge with
\* name and mac; two edges, the first with a padded id; an edge with a
\* numeric id; an edge whose id is null), the single-node shape, per-edge
\* fragments, items whose edge identifier is missing, empty or whitespace
\* in either shape, fragments whose path segment is empty, blank or not a
\* number, an item that is no object and an edge whose children are null
UnitItems ==
  { Item("/dsiot/edges", JList(<<
       JDict(<< <<"ri", JStr("1")>>, <<"pch", JList(<< GNode("adp_d", <<PNode("name", "Living")>>), GNode("adp_i", <<PNode("mac", "AA11")>>) >>)>> >>) >>)),
    Item("/dsiot/edges", JList(<<
       JDict(<< <<"ri", JStr(" 1 ")>> >>),
       JDict(<< <<"ri", JStr("2")>>, <<"pch", JList(<< GNode("adp_d", <<PNode("name", "Bed")>>) >>)>> >>) >>)),
    Item("/dsiot/edges", JList(<< JDict(<< <<"ri", JInt(1)>> >>) >>)),
    Item("/dsiot/edges", JList(<< JDict(<< <<"ri", JNull>> >>) >>)),
    Item("/dsiot/edges", JDict(<< <<"ri", JStr("1")>>, <<"pch", JList(<< GNode("adp_i", <<PNode("mac", "BB22")>>) >>)>> >>)),
    Item("/dsiot/edges/1/adp_i", GNode("adp_i", <<PNode("mac", "CC33")>>)),
    Item("/dsiot/edges/2/adp_d", GNode("adp_d", <<PNode("name", "Den")>>)),
    Item("/dsiot/edges", JList(<<
       JDict(<< <<"pch", JList(<< GNode("adp_d", <<PNode("name", "Ghost")>>) >>)>> >>),
       JDict(<< <<"ri", JStr("")>> >>),
       JDict(<< <<"ri", JStr(" ")>> >>),
       JDict(<< <<"ri", JStr(" \t")>> >>),
       JStr("x") >>)),
    Item("/dsiot/edges", JDict(<< <<"pch", JList(<< GNode("adp_i", <<PNode("mac", "DD44")>>) >>)>> >>)),
    Item("/dsiot/edges", JDict(<< <<"ri", JStr("  ")>> >>)),
    Item("/dsiot/edges//adp_i", GNode("adp_i", <<PNode("mac", "EE55")>>)),
    Item("/dsiot/edges/ /adp_i", GNode("adp_i", <<PNode("mac", "EE66")>>)),
    Item("/dsiot/edges/x1/adp_i", GNode("adp_i", <<PNode("mac", "EE77")>>)),
    JStr("/dsiot/edges"),
    Item("/dsiot/edges", JDict(<< <<"ri", JStr("1")>>, <<"pch", JNull>> >>)) }

\* async_fetch_units: the body that answers its batch
InitFetchUnits ==
  /\ IdleLocals /\ FreshClient /\ op = "async_fetch_units" /\ new_units = EmptyMap
  /\ \/ \E n \in 0..MaxItems : \E items \in [1..n -> UnitItems] : args = [data |-> Responses(items)]
     \/ args = [data |-> JDict(<< <<"responses", JNull>> >>)]

\* the parsing loop of async_fetch_units and its return
ApplyFetchUnits ==
  /\ op = "async_fetch_units" /\ pc = "idle"
  /\ LET found == ParseUnits(args.data)
     IN IF IsNone(found)
          THEN /\ pc' = "done" /\ result' = Exc("TypeError", "unexpected body shape", 0)
               /\ UNCHANGED <<clientVars, stack, op, di, mrVars, wrVars, log, last_xchg, ret, units_before, args, other>>
          ELSE FnReturn(found[1])

(***************************************************************************)
(* async_set_fan_mode: climate.py lines 256-277, with the fan-speed tables *)
(* of const.py lines 36-71.                                                *)
(***************************************************************************)
FAN_SPEED_NAME_TO_CODE ==
  << <<"Auto", "0A00">>, <<"Indoor Unit Quiet", "0B00">>, <<"Level 1", "0300">>, <<"Level 2", "0400">>,
     <<"Level 3", "0500">>, <<"Level 4", "0600">>, <<"Level 5", "0700">> >>
MODE_FAN_SPEED_PARAM_KEY ==
  << <<MODE_CODE_COOL, "p_09">>, <<MODE_CODE_DRY, "p_27">>, <<MODE_CODE_FAN, "p_28">> >>
ALL_FAN_SPEED_PARAM_KEYS == <<"p_09", "p_27", "p_28">>

\* variant: the key of cool is used for every mode
fan_speed_param_key_for_mode_Cool(mode_code) ==
  IF ~Truthy(mode_code) THEN None ELSE Some("p_09")

\* mode_code is an Optional[str]
fan_speed_param_key_for_mode(mode_code) ==
  IF ~Truthy(mode_code) THEN None ELSE PairsGet(MODE_FAN_SPEED_PARAM_KEY, mode_code[1])

\* the arguments of the async_write_state call async_set_fan_mode makes for
\* the cached unit (an Optional), None when it returns without a call
set_fan_mode_write(unit, fan_mode) ==
  IF IsNone(unit) THEN None
  ELSE LET speed_code == PairsGet(FAN_SPEED_NAME_TO_CODE, fan_mode)
           speed_param == fan_speed_param_key_for_mode(unit[1].mode_code)
       IN IF ~Truthy(speed_code) THEN None
          ELSE Some([edge_id |-> unit[1].edge_id, power_on |-> TRUE, mode_code |-> None,
                     mode_param_overrides |->
                       IF Truthy(speed_param) THEN << <<speed_param[1], speed_code[1]>> >>
                       ELSE [i \in 1..Len(ALL_FAN_SPEED_PARAM_KEYS) |-> <<ALL_FAN_SPEED_PARAM_KEYS[i], speed_code[1]>>]])

\* fan-mode names: the known ones and one that is not known
FanModeInputs == {FAN_SPEED_NAME_TO_CODE[i][1] : i \in 1..Len(FAN_SPEED_NAME_TO_CODE)} \cup {"Turbo"}

\* what the last refresh stored for the unit: the mode (none, the three
\* templated ones, heat, empty) and the fan speeds of before (none, one per
\* key, one of another width, all three)
FanRawStatuses ==
  LET modes == {None, Some(MODE_CODE_COOL), Some(MODE_CODE_DRY), Some(MODE_CODE_FAN), Some("0300"), Some("")}
      speeds == { EmptyMap,
                  MapPut(EmptyMap, "e_3001.p_09", "0300"),
                  MapPut(EmptyMap, "e_3001.p_27", "0B00"),
                  MapPut(EmptyMap, "e_3001.p_28", "0700"),
                  MapPut(MapPut(MapPut(EmptyMap, "e_3001.p_09", "0A"), "e_3001.p_27", "0A000"), "e_3001.p_28", ""),
                  MapPut(MapPut(MapPut(EmptyMap, "e_3001.p_09", "0400"), "e_3001.p_27", "0500"), "e_3001.p_28", "0600") }
  IN { IF IsNone(m) THEN r ELSE MapPut(r, "e_3001.p_01", m[1]) : m \in modes, r \in speeds }

InitSetFanMode ==
  /\ IdleLocals /\ FreshClient /\ op = "async_set_fan_mode" /\ new_units = EmptyMap
  /\ \E fan_mode \in FanModeInputs :
       \/ args = [unit |-> None, fan_mode |-> fan_mode]
       \/ \E raw \in FanRawStatuses :
            args = [unit |-> Some(DecodeUnit(NewUnit("1", "Daikin 1", ""), raw)), fan_mode |-> fan_mode]

\* the call, and the request body async_write_state builds for it
ApplySetFanMode ==
  /\ op = "async_set_fan_mode"
  /\ LET write == set_fan_mode_write(args.unit, args.fan_mode)
     IN FnReturn([write |-> write,
                  body |-> IF IsNone(write) THEN JNull
                           ELSE WriteBody(args.unit[1], write[1].edge_id, write[1].power_on,
                                          write[1].mode_code, write[1].mode_param_overrides)])

FnInit ==
  \/ InitSetFanMode
  \/ InitFetchUnits
  \/ InitFetchStatus
  \/ InitDecodeHex
  \/ InitTokenCandidates
  \/ InitBuildModePatch
  \/ InitMergeUnitEdge
  \/ InitSetTemperature

FnNext ==
  \/ ApplySetFanMode
  \/ ApplyFetchUnits
  \/ ApplyFetchStatus
  \/ ApplyDecodeHex
  \/ ApplyTokenCandidates
  \/ ApplyBuildModePatch
  \/ ApplyMergeUnitEdge
  \/ ApplySetTemperature

FnSpec == FnInit /\ [][FnNext]_vars

(***************************************************************************)
(* Properties.                                                             *)
(***************************************************************************)
\* positions of the events of kind k in a log
EventsOf(l, k) == {i \in 1..Len(l) : l[i].k = k}
LastIs(l, k) == Len(l) > 0 /\ l[Len(l)].k = k
\* the step appended an event of kind k
Sent(k) == Len(log') = Len(log) + 1 /\ log'[Len(log')].k = k
\* the last response was HTTP 200 with an object body
Answered200Object(x) == x.status = 200 /\ IsDict(x.data)
\* the result code of the first embedded operation result of a write
\* response body, None when there is no such result or it has no rsc
FirstRsc(d) ==
  LET responses == Get(d, "responses", JNull)
  IN IF IsList(responses) /\ Len(responses.v) > 0 /\ IsDict(responses.v[1]) /\ Has(responses.v[1], "rsc")
       THEN Some(responses.v[1].v[CHOOSE i \in 1..Len(responses.v[1].v) : responses.v[1].v[i][1] = "rsc"][2])
       ELSE None
AcceptedCode(rsc) == rsc # None /\ rsc[1] \in {JInt(2000), JInt(2004)}
\* the logins started after the first write request of the call
LoginsAfterFirstWrite(l) ==
  {i \in EventsOf(l, "login") : \E w \in EventsOf(l, "write") : w < i}
\* the token a request of the given type carries, when one is stored
StoredToken(mode) == IF mode = AUTH_MODE_ACCESS_TOKEN THEN access_token ELSE id_token

\* C1: a write_state call whose first write request was answered 401 and
\* whose retried request was answered 200 with an object body carrying an
\* accepted result code succeeds; the call performed exactly one login after
\* the 401 and sent exactly two write requests, the second one carrying the
\* token that login stored.
C1_WriteRetrySucceeds ==
  (/\ op = "write_state" /\ pc = "done"
   /\ attempt = 1 /\ LastIs(log, "write")
   /\ Answered200Object(last_xchg) /\ AcceptedCode(FirstRsc(last_xchg.data)))
  => /\ result = Ok
     /\ Cardinality(EventsOf(log, "write")) = 2
     /\ Cardinality(LoginsAfterFirstWrite(log)) = 1
     /\ Truthy(StoredToken(log[Len(log)].mode))
     /\ last_xchg.tok = StoredToken(log[Len(log)].mode)[1]

C1_Witness ==
  /\ op = "write_state" /\ pc = "done" /\ attempt = 1 /\ result = Ok
  /\ LastIs(log, "write") /\ AcceptedCode(FirstRsc(last_xchg.data))
  /\ Cardinality(EventsOf(log, "login")) = 1

\* C2: a write_state call sends at most two write requests and performs at
\* most one login after its first write; a first response whose status is
\* not 401 ends the call (no relogin, no second request); a 401 on the
\* retried request ends the call with DaikinApiError.
C2_WriteRetryBounded ==
  [][op' = "write_state" =>
       /\ Cardinality(EventsOf(log', "write")) <= 2
       /\ Cardinality(LoginsAfterFirstWrite(log')) <= 1
       /\ (Sent("write") /\ Cardinality(EventsOf(log', "write")) = 1 /\ last_xchg'.status # 401)
            => pc' = "done"
       /\ (Sent("write") /\ Cardinality(EventsOf(log', "write")) = 2 /\ last_xchg'.status = 401)
            => (pc' = "done" /\ result'.exc = "DaikinApiError")
       /\ (op = "write_state" /\ pc = "done") => log' = <<>>
  ]_vars

C2_Witness ==
  /\ op = "write_state" /\ pc = "done" /\ result.exc = "DaikinApiError"
  /\ Cardinality(EventsOf(log, "write")) = 2 /\ LastIs(log, "write") /\ last_xchg.status = 401

\* C3: when the final write response is HTTP 200 with an object body, the
\* call fails with DaikinApiError only if the first embedded operation result
\* carries a result code that is neither 2000 nor 2004; a first result
\* without rsc, or a body without results, is accepted.
C3_WriteRejectedOnlyByCode ==
  (/\ op = "write_state" /\ pc = "done" /\ LastIs(log, "write")
   /\ Answered200Object(last_xchg))
  => IF FirstRsc(last_xchg.data) # None /\ ~AcceptedCode(FirstRsc(last_xchg.data))
       THEN result.exc = "DaikinApiError"
       ELSE result = Ok

\* C4: write_state with an edge id that is not in the unit cache fails with
\* DaikinApiError before any login or request, and changes neither the
\* tokens nor auth_mode nor the unit cache.
C4_UnknownEdge ==
  [][(pc = "idle" /\ op' = "write_state" /\ edge_id' \notin DOMAIN units)
       => /\ pc' = "done" /\ result'.exc = "DaikinApiError" /\ result'.msg = "Unknown edge_id"
          /\ log' = <<>>
          /\ UNCHANGED clientVars
  ]_vars

C4_Witness ==
  /\ op = "write_state" /\ pc = "done" /\ result.msg = "Unknown edge_id"
  /\ units # EmptyMap /\ edge_id \notin DOMAIN units /\ Truthy(access_token)

\* the batch requests of the running attempt
BatchesOfAttempt(l, n) == {i \in EventsOf(l, "batch") : l[i].n = n}

\* C5: every batch request of a _multireq call carries the next candidate
\* in _token_candidates order; the first response that is HTTP 200 with an
\* object body ends the call: the body is returned, auth_mode becomes the
\* token type of that request, and the call sends nothing more.
C5_MultireqFirstSuccess ==
  [][Sent("batch") /\ last_xchg'.status # 0 =>
       LET j == Cardinality(BatchesOfAttempt(log', attempt))
           order == token_candidates(auth_mode, access_token, id_token)
       IN /\ j <= Len(order)
          /\ log'[Len(log')].mode = order[j][1]
          /\ last_xchg'.tok = order[j][2]
          /\ Answered200Object(last_xchg') =>
               /\ auth_mode' = log'[Len(log')].mode
               /\ mr_data' = last_xchg'.data
               /\ pc' \in {"done", "multireq"} /\ stack' = <<>>
               /\ UNCHANGED tokenVars
  ]_vars

C5_Witness ==
  /\ op = "refresh" /\ pc = "multireq" /\ phase = "status"
  /\ Cardinality(EventsOf(log, "batch")) = 2 /\ LastIs(log, "batch")
  /\ auth_mode = AUTH_MODE_ACCESS_TOKEN /\ log[Len(log)].mode = AUTH_MODE_ACCESS_TOKEN
  /\ log[Len(log) - 1].mode = AUTH_MODE_ID_TOKEN

\* C6: a _multireq call in which no batch request was answered 200 with an
\* object body and whose relogin between the two passes succeeded makes
\* exactly two passes, at most four batch requests, and fails with
\* DaikinApiError carrying the status of the last batch request.
C6_MultireqExhausted ==
  (/\ op = "refresh" /\ pc = "done"
   /\ result.exc \in {"DaikinApiError", "DaikinAuthError"}
   /\ BatchesOfAttempt(log, 1) # {})
  => /\ result.exc = "DaikinApiError"
     /\ result.status = last_status
     /\ Cardinality(EventsOf(log, "batch")) <= 4
     /\ \A i \in EventsOf(log, "batch") : log[i].n \in {0, 1}

C6_Witness ==
  /\ op = "refresh" /\ pc = "done" /\ result.exc = "DaikinApiError"
  /\ result.msg = "multireq failed after token fallback"
  /\ Cardinality(EventsOf(log, "batch")) = 4

\* the typed fields of a unit are the decodings of its own raw_status
Derived(u) ==
  LET raw == u.raw_status
      room == decode_hex_signed_byte(MapGet(raw, "e_A00B.p_01"))
  IN /\ u.mode_code = MapGet(raw, "e_3001.p_01")
     /\ u.fan_code = MapGet(raw, "e_3003.p_2D")
     /\ u.power_code = MapGet(raw, "e_A002.p_01")
     /\ u.target_temp_c = decode_hex_half_degree(MapGet(raw, "e_3001.p_02"))
     /\ u.room_temp_c = (IF IsNone(room) THEN None ELSE Some(10 * room[1]))
     /\ u.room_humidity_percent = decode_hex_int(MapGet(raw, "e_A00B.p_02"))
     /\ u.sensor_temp_1_c = decode_hex_le_i16_half_degree(MapGet(raw, "e_A00B.p_05"))
     /\ u.sensor_temp_2_c = decode_hex_le_i16_half_degree(MapGet(raw, "e_A00B.p_06"))

\* C7: while a refresh runs and after it failed the unit cache is the cache
\* of before the call; the cache is assigned only by the last step of a
\* successful refresh, to the empty map or to the map built by that refresh
\* (the discovered edges, every unit decoded).
C7_RefreshAtomic ==
  [][/\ (op' = "refresh" /\ ~(pc' = "done" /\ result' = Ok)) => units' = units_before'
     /\ units' # units =>
          /\ op = "refresh" /\ pc' = "done" /\ result' = Ok /\ ret' = Some(units')
          /\ \/ phase = "units" /\ units' = EmptyMap
             \/ /\ phase = "status"
                /\ DOMAIN units' = DOMAIN new_units
                /\ \A e \in DOMAIN units' :
                     /\ Derived(units'[e])
                     /\ units'[e].edge_id = e
                     /\ units'[e].name = new_units[e].name
                     /\ units'[e].mac = new_units[e].mac
  ]_vars

C7_Witness ==
  /\ op = "refresh" /\ pc = "done" /\ result.exc = "DaikinApiError"
  /\ phase = "status" /\ units # EmptyMap /\ units = units_before
  /\ DOMAIN new_units # DOMAIN units

\* C8: a refresh whose discovery succeeded with no units sets the cache to
\* the empty map, returns the empty map and sends no status request; with an
\* empty cache write_state fails as unknown edge for every edge id, and the
\* cache stays empty until a refresh discovers units.
C8_EmptyDiscovery ==
  [][/\ (/\ op = "refresh" /\ pc = "mr_send" /\ phase = "units"
         /\ Sent("batch") /\ Answered200Object(last_xchg')
         /\ ParseUnits(last_xchg'.data) = Some(EmptyMap))
        => /\ pc' = "done" /\ result' = Ok
           /\ units' = EmptyMap /\ ret' = Some(EmptyMap)
           /\ \A i \in EventsOf(log', "batch") : log'[i].q = "units"
     /\ (units = EmptyMap /\ pc = "idle" /\ op' = "write_state")
        => /\ pc' = "done" /\ result'.msg = "Unknown edge_id" /\ log' = <<>>
     /\ (units = EmptyMap /\ units' # EmptyMap)
        => /\ op = "refresh" /\ phase = "status" /\ new_units # EmptyMap
  ]_vars

C8_Witness ==
  /\ op = "refresh" /\ pc = "done" /\ result = Ok
  /\ units = EmptyMap /\ units_before # EmptyMap /\ ret = Some(EmptyMap)

\* the status map of the end-to-end scenario
ScenarioRaw ==
  MapPut(MapPut(MapPut(MapPut(MapPut(EmptyMap,
    "e_A002.p_01", "01"), "e_3001.p_01", "0200"), "e_3001.p_02", "32"),
    "e_A00B.p_01", "19"), "e_A00B.p_02", "28")

C10_CredentialsResolvedOnce ==
  [][(Truthy(client_id) /\ Truthy(client_secret))
       => /\ UNCHANGED credVars
          /\ ~Sent("disc")
          /\ pc' # "disc_req"
  ]_vars

C10_Witness ==
  /\ client_id = Some("cidB4567") /\ client_secret = Some("secretB890123456")
  /\ pc = "login_req" /\ EventsOf(log, "disc") = {}

\* the value a login response body carries for a token field: absent when
\* the key is missing or null
Carried(d, name) ==
  IF IsDict(d) /\ \E i \in 1..Len(d.v) : d.v[i][1] = name /\ d.v[i][2].t = "str"
    THEN Some((d.v[CHOOSE i \in 1..Len(d.v) : d.v[i][1] = name][2]).v)
    ELSE None
\* the step received the answer of a login request
LoginAnswered == pc = "login_req" /\ Sent("login_req") /\ last_xchg'.status # 0
\* async_login returned normally in this step, to the caller that awaits it
\* or to the host
LoginReturned == LoginAnswered /\ (IF stack = <<>> THEN pc' = "done" /\ result' = Ok ELSE pc' = Head(stack))

\* C11: after every successful login the stored access, ID and refresh
\* tokens are exactly the values of that login's response: a token type the
\* response lacks is absent afterwards, whatever was stored before; and the
\* tokens are assigned by no other step than the answer of a login request.
C11_TokensReplacedWholesale ==
  [][/\ LoginReturned =>
          /\ access_token' = Carried(last_xchg'.data, "access_token")
          /\ id_token' = Carried(last_xchg'.data, "id_token")
          /\ refresh_token' = Carried(last_xchg'.data, "refresh_token")
     /\ tokenVars' # tokenVars => LoginAnswered
  ]_vars

C11_Witness ==
  /\ op = "write_state" /\ pc = "wr_send" /\ attempt = 1
  /\ log[1].k = "write" /\ log[1].mode = AUTH_MODE_ID_TOKEN
  /\ LastIs(log, "login_req")
  /\ id_token = None /\ refresh_token = None /\ Truthy(access_token)

\* the login response is acceptable: HTTP 200, an object, rsc 2000, and an
\* access token or an ID token
LoginAcceptable(x) ==
  /\ x.status = 200 /\ IsDict(x.data)
  /\ \E i \in 1..Len(x.data.v) : x.data.v[i] = <<"rsc", JInt(2000)>>
  /\ \/ Truthy(Carried(x.data, "access_token"))
     \/ Truthy(Carried(x.data, "id_token"))

\* C12: a login request is sent only with resolved credentials; async_login
\* returns normally exactly when the answer is HTTP 200 with an object body
\* whose rsc is 2000 and that carries an access or an ID token, and then a
\* non-empty access or ID token is stored; every other answer, and a failed
\* credential discovery, ends the call with DaikinAuthError (a failure of
\* the transport itself propagates as such).
C12_LoginSucceedsIff ==
  [][/\ Sent("login_req") => Truthy(client_id) /\ Truthy(client_secret)
     /\ LoginAnswered =>
          /\ LoginReturned <=> LoginAcceptable(last_xchg')
          /\ LoginReturned => (Truthy(access_token') \/ Truthy(id_token'))
          /\ ~LoginReturned => (pc' = "done" /\ result'.exc = "DaikinAuthError")
     /\ (op' = "login" /\ pc' = "done" /\ result'.exc \notin {"ok", "TransportError"})
          => result'.exc = "DaikinAuthError"
     /\ (op' = "login" /\ pc' = "done" /\ result' = Ok)
          => (LoginReturned /\ LoginAcceptable(last_xchg'))
  ]_vars

C12_Witness ==
  /\ op = "login" /\ pc = "done" /\ result = Ok
  /\ LastIs(log, "login_req") /\ LoginAcceptable(last_xchg)
  /\ ~Truthy(access_token) /\ Truthy(id_token)
  /\ \E i \in EventsOf(log, "disc") : TRUE

\* what a discovery response yields: the pair found in the parsed body,
\* else the pair found in the raw text
Yields(x) ==
  LET fromData == IF IsDict(x.data) THEN extract_client_credentials(x.data) ELSE None
  IN IF fromData # None THEN fromData ELSE extract_client_credentials_from_text(x.text)

\* C13: with credentials unknown, async_resolve_client_credentials sends
\* unauthenticated requests only, request number j of the call going to
\* endpoint (j-1) div 4 with payload variant (j-1) mod 4, at most 8 of them;
\* the first response that yields a pair ends the call, which stores and
\* returns that pair; when the 8th response yields none either the call
\* fails with DaikinAuthError, the credentials stay unresolved and no login
\* request is sent.
C13_DiscoveryOrderAndStop ==
  [][(Sent("disc") /\ last_xchg'.status # 0) =>
       LET j == Cardinality(EventsOf(log', "disc"))
           sent == log'[Len(log')]
           pair == Yields(last_xchg')
       IN /\ ~(Truthy(client_id) /\ Truthy(client_secret))
          /\ j <= 8 /\ sent.n = j
          /\ last_xchg'.tok = ""
          /\ sent.q = API_CREDENTIAL_DISCOVERY_URLS[((j - 1) \div 4) + 1]
          /\ sent.mode = PayloadVariants[((j - 1) % 4) + 1]
          /\ \A i \in EventsOf(log, "disc") : i < Len(log') /\ log[i].n < j
          /\ pair # None =>
               /\ client_id' = Some(pair[1][1]) /\ client_secret' = Some(pair[1][2])
               /\ IF stack = <<>>
                    THEN pc' = "done" /\ result' = Ok /\ ret' = Some(pair[1])
                    ELSE pc' = Head(stack)
          /\ pair = None =>
               /\ UNCHANGED credVars
               /\ IF j < 8
                    THEN pc' = "disc_req"
                    ELSE /\ pc' = "done" /\ result'.exc = "DaikinAuthError"
                         /\ EventsOf(log', "login_req") = {}
  ]_vars

C13_Witness ==
  /\ op = "login" /\ pc = "done" /\ result.exc = "DaikinAuthError"
  /\ Cardinality(EventsOf(log, "disc")) = 8 /\ LastIs(log, "disc")
  /\ log[Len(log)].q = API_CREDENTIAL_DISCOVERY_URLS[2]
  /\ client_id = None /\ client_secret = None

C13_WitnessResolved ==
  /\ op = "resolve" /\ pc = "done" /\ result = Ok
  /\ Cardinality(EventsOf(log, "disc")) = 6
  /\ ret = Some(<<"cidB4567", "secretB890123456">>)

\* C14: _token_candidates returns at most two (mode, token) pairs with
\* distinct modes, exactly one for each token type that is stored (non-empty),
\* carrying the stored token; the type auth_mode names comes first when it is
\* stored; the list is empty exactly when neither type is stored.
C14_TokenCandidates ==
  (op = "_token_candidates" /\ pc = "done") =>
    LET c == ret[1]
        stored == {m \in {AUTH_MODE_ACCESS_TOKEN, AUTH_MODE_ID_TOKEN} :
                     StoredToken(m) # None /\ StoredToken(m)[1] # ""}
    IN /\ Len(c) <= 2
       /\ \A i, j \in 1..Len(c) : c[i][1] = c[j][1] => i = j
       /\ {c[i][1] : i \in 1..Len(c)} = stored
       /\ \A i \in 1..Len(c) : c[i][2] = StoredToken(c[i][1])[1]
       /\ auth_mode \in stored => c[1][1] = auth_mode
       /\ c = <<>> <=> (~Truthy(access_token) /\ ~Truthy(id_token))

C14_Witness ==
  /\ op = "_token_candidates" /\ pc = "done"
  /\ auth_mode = AUTH_MODE_ACCESS_TOKEN
  /\ ret = Some(<< <<AUTH_MODE_ACCESS_TOKEN, "tokA.access">>, <<AUTH_MODE_ID_TOKEN, "tokB.id">> >>)

\* a _build_mode_patch call has returned
PatchBuilt == op = "_build_mode_patch" /\ pc = "done"
\* the keys the caller overrides
OverrideKeys(overrides) == {overrides[i][1] : i \in 1..Len(overrides)}
\* the templated keys of a mode, in template order
TemplatedKeys(mode_code) ==
  IF mode_code = "0200" THEN <<"p_02", "p_05", "p_06", "p_09", "p_0C">>
  ELSE IF mode_code = "0500" THEN <<"p_22", "p_23", "p_27", "p_31">>
  ELSE IF mode_code = "0000" THEN <<"p_24", "p_25", "p_28">>
  ELSE <<>>

\* C15: the patch starts with p_01 = mode_code and p_01 occurs nowhere
\* else in it, whatever the overrides say about p_01.
C15_ModeWriteFirstAndOnce ==
  PatchBuilt =>
    LET patch == ret[1]
    IN /\ Len(patch) >= 1
       /\ patch[1] = [pn |-> "p_01", pv |-> args.mode_code]
       /\ \A i \in 2..Len(patch) : patch[i].pn # "p_01"

C15_Witness ==
  /\ PatchBuilt /\ args.mode_code = MODE_CODE_COOL
  /\ "p_01" \in OverrideKeys(args.mode_param_overrides)
  /\ Len(ret[1]) = 7

\* C16: the templated keys of the mode follow p_01 in template order; a
\* templated key without a caller override carries the unit's raw value of
\* e_3001.<key> when that is present with the length of the template default
\* and the default otherwise (cool, raw p_02 "2C" gives "2C"; raw p_02 "2C0"
\* gives "32"); a mode code without a template yields no templated key.
C16_TemplateFidelity ==
  PatchBuilt =>
    LET patch == ret[1]
        raw == args.current.raw_status
        keys == TemplatedKeys(args.mode_code)
        defaults == ModeTemplate(args.mode_code)
    IN /\ Len(patch) >= 1 + Len(keys)
       /\ Len(defaults) = Len(keys)
       /\ \A i \in 1..Len(keys) :
            LET key == keys[i]
                default == defaults[i][2]
                field == "e_3001." \o key
            IN /\ patch[i + 1].pn = key
               /\ defaults[i][1] = key
               /\ key \notin OverrideKeys(args.mode_param_overrides) =>
                    patch[i + 1].pv = (IF field \in DOMAIN raw /\ Len(raw[field]) = Len(default)
                                         THEN raw[field] ELSE default)
       /\ args.mode_code \notin {"0200", "0500", "0000"} =>
            \A i \in 2..Len(patch) : patch[i].pn \in OverrideKeys(args.mode_param_overrides)
       /\ (args.mode_code = "0200" /\ args.mode_param_overrides = <<>>) =>
            /\ ("e_3001.p_02" \in DOMAIN raw /\ raw["e_3001.p_02"] = "2C") => patch[2] = [pn |-> "p_02", pv |-> "2C"]
            /\ ("e_3001.p_02" \in DOMAIN raw /\ raw["e_3001.p_02"] = "2C0") => patch[2] = [pn |-> "p_02", pv |-> "32"]

C16_Witness ==
  /\ PatchBuilt /\ args.mode_code = MODE_CODE_COOL /\ args.mode_param_overrides = <<>>
  /\ "e_3001.p_02" \in DOMAIN args.current.raw_status
  /\ args.current.raw_status["e_3001.p_02"] = "2C0"
  /\ ret[1][2].pv = "32"

C16_WitnessKept ==
  /\ PatchBuilt /\ args.mode_code = MODE_CODE_COOL /\ args.mode_param_overrides = <<>>
  /\ "e_3001.p_02" \in DOMAIN args.current.raw_status
  /\ ret[1][2].pv = "2C"

\* C17: after the templated keys the patch holds exactly the caller's
\* overrides whose key is neither templated nor p_01, in the caller's order
\* and with the caller's values, and no parameter name occurs twice.
C17_ExtraOverridesAppended ==
  PatchBuilt =>
    LET patch == ret[1]
        overrides == args.mode_param_overrides
        keys == TemplatedKeys(args.mode_code)
        templated == {keys[i] : i \in 1..Len(keys)}
        Extra(pair) == pair[1] \notin templated /\ pair[1] # "p_01"
        extra == SelectSeq(overrides, Extra)
    IN /\ Len(patch) = 1 + Len(keys) + Len(extra)
       /\ \A i \in 1..Len(extra) :
            patch[1 + Len(keys) + i] = [pn |-> extra[i][1], pv |-> extra[i][2]]
       /\ \A i, j \in 1..Len(patch) : patch[i].pn = patch[j].pn => i = j

C17_Witness ==
  /\ PatchBuilt /\ args.mode_code = MODE_CODE_DRY
  /\ Len(args.mode_param_overrides) = 5
  /\ Len(ret[1]) = 8
  /\ ret[1][6] = [pn |-> "p_2D", pv |-> "0300"]
  /\ ret[1][7] = [pn |-> "p_0C", pv |-> ""]

\* the step merged the fragment f
Merged(f) == op = "_merge_unit_edge" /\ args.fragments # <<>> /\ f = Head(args.fragments) /\ args'.merged = Append(args.merged, f)
\* the fragments merged so far for edge e that supplied a non-empty value of
\* the field
Supplying(e, field) ==
  {i \in 1..Len(args.merged) :
     /\ args.merged[i].edge_id = e
     /\ args.merged[i][field] # None /\ args.merged[i][field][1] # ""}
\* the most recent such value, or the fallback when there is none
LastSupplied(e, field, fallback) ==
  IF Supplying(e, field) = {} THEN fallback
  ELSE args.merged[CHOOSE i \in Supplying(e, field) : \A j \in Supplying(e, field) : j <= i][field][1]

\* C18: merging a fragment with non-empty name and mac a second time, right
\* after merging it, leaves the unit map exactly as it was: the same units,
\* the same name and mac, the other fields untouched.
C18_MergeIdempotent ==
  [][\A f \in FragmentInputs :
       (/\ Merged(f)
        /\ args.merged # <<>> /\ args.merged[Len(args.merged)] = f
        /\ f.name # None /\ f.name[1] # "" /\ f.mac # None /\ f.mac[1] # "")
       => /\ new_units' = new_units
          /\ new_units'[f.edge_id] = NewUnit(f.edge_id, f.name[1], f.mac[1])
  ]_vars

C18_Witness ==
  /\ op = "_merge_unit_edge" /\ Len(args.merged) = 3
  /\ args.merged[2] = args.merged[3]
  /\ args.merged[3] = [edge_id |-> "1", name |-> Some("Den"), mac |-> Some("CC33")]
  /\ args.merged[1] = [edge_id |-> "1", name |-> Some("Living"), mac |-> Some("AA11")]
  /\ DOMAIN new_units = {"1"}

\* C19: after any sequence of merges the map holds one unit for each edge id
\* that was merged; its name is not empty; its name and mac are the most
\* recent non-empty values a fragment for that edge supplied, the name being
\* "Daikin <edge_id>" and the mac empty when none did; the other fields are
\* as created.  Fragments for other edges therefore never change a unit.
C19_MergeKeepsLastNonEmpty ==
  op = "_merge_unit_edge" =>
    /\ DOMAIN new_units = {args.merged[i].edge_id : i \in 1..Len(args.merged)}
    /\ \A e \in DOMAIN new_units :
         /\ new_units[e].name # ""
         /\ new_units[e] = NewUnit(e, LastSupplied(e, "name", "Daikin " \o e), LastSupplied(e, "mac", ""))

C19_Witness ==
  /\ op = "_merge_unit_edge" /\ Len(args.merged) = 3
  /\ args.merged[1] = [edge_id |-> "1", name |-> Some("Living"), mac |-> None]
  /\ args.merged[2] = [edge_id |-> "2", name |-> None, mac |-> None]
  /\ args.merged[3] = [edge_id |-> "1", name |-> Some(""), mac |-> Some("AA11")]
  /\ new_units["1"].name = "Living" /\ new_units["1"].mac = "AA11"
  /\ new_units["2"].name = "Daikin 2"

\* "%02X" % h for h in 0..255
TwoHexDigits(h) ==
  LET digits == "0123456789ABCDEF"
  IN SubSeq(digits, (h \div 16) + 1, (h \div 16) + 1) \o SubSeq(digits, (h % 16) + 1, (h % 16) + 1)

\* C20: for every half-step count h in 0..255 the temperature h/2 is written
\* as the two upper-case hex digits of h, and decode_hex_half_degree of
\* that string is h/2 again.
C20_HalfDegreeRoundTrip ==
  (op = "async_set_temperature" /\ pc = "done") =>
    \A h \in 0..255 :
      args.temperature = 5 * h =>
        /\ ret[1].p02_hex = Some(TwoHexDigits(h))
        /\ Len(ret[1].p02_hex[1]) = 2
        /\ ret[1].target_temp_c = Some(args.temperature)

C20_Witness ==
  /\ op = "async_set_temperature" /\ pc = "done"
  /\ args.temperature = 1275
  /\ ret = Some([p02_hex |-> Some("FF"), target_temp_c |-> Some(1275)])

\* the value of one hex digit, found by its place among the digits
DigitPlace(c) ==
  CHOOSE i \in 0..15 : c \in {SubSeq("0123456789ABCDEF", i + 1, i + 1), SubSeq("0123456789abcdef", i + 1, i + 1)}

AllHexDigits(s) ==
  \A i \in 1..Len(s) : \E k \in 1..16 :
    SubSeq(s, i, i) \in {SubSeq("0123456789ABCDEF", k, k), SubSeq("0123456789abcdef", k, k)}

\* the number written by the hex digits of s, most significant first
RECURSIVE HexNumber(_)
HexNumber(s) ==
  IF Len(s) = 0 THEN 0
  ELSE 16 * HexNumber(SubSeq(s, 1, Len(s) - 1)) + DigitPlace(SubSeq(s, Len(s), Len(s)))

\* the helper named by o was called on a present value and has returned
Decoded(o) == op = o /\ pc = "done" /\ args.value # None

\* C21: on every two-hex-digit input, of value n in 0..255,
\* decode_hex_signed_byte returns n when n < 128 and n - 256 otherwise
\* ("FF" is -1, "7F" is 127, "80" is -128); on longer hex inputs it subtracts
\* 256 from the raw integer by the same rule.
C21_SignedByte ==
  Decoded("_decode_hex_signed_byte") =>
    LET s == args.value[1]
        n == HexNumber(s)
    IN /\ (Len(s) = 2 /\ AllHexDigits(s)) =>
            /\ n \in 0..255
            /\ ret = Some(Some(IF n < 128 THEN n ELSE n - 256))
            /\ ret[1][1] \in (0 - 128)..127
       /\ (Len(s) > 2 /\ AllHexDigits(s)) =>
            ret = Some(Some(IF n < 128 THEN n ELSE n - 256))
       /\ s = "FF" => ret = Some(Some(0 - 1))
       /\ s = "7F" => ret = Some(Some(127))
       /\ s = "80" => ret = Some(Some(0 - 128))

C21_Witness ==
  /\ Decoded("_decode_hex_signed_byte")
  /\ args.value = Some("1FF")
  /\ ret = Some(Some(255))

\* C22: on every input of exactly four hex digits, bytes b0 then b1,
\* decode_hex_le_i16_half_degree returns half of the signed 16-bit value of
\* b0 + 256 * b1 ("0A00" is 5.0); on every input whose length is not 4 or
\* that holds a character that is not a hex digit it returns absent.
C22_LittleEndianHalfDegree ==
  Decoded("_decode_hex_le_i16_half_degree") =>
    LET s == args.value[1]
        u == HexNumber(SubSeq(s, 1, 2)) + 256 * HexNumber(SubSeq(s, 3, 4))
    IN /\ (Len(s) = 4 /\ AllHexDigits(s)) =>
            ret = Some(Some(5 * (IF u >= 32768 THEN u - 65536 ELSE u)))
       /\ s = "0A00" => ret = Some(Some(50))
       /\ (Len(s) # 4 \/ ~AllHexDigits(s)) => ret = Some(None)

\* C23: no decode helper fails; on a missing value, the empty string and
\* every string holding a character that is not a hex digit each returns
\* absent, and each returns a number only for strings made of hex digits alone.
C23_MalformedIsAbsent ==
  (op \in DecodeOps /\ pc = "done") =>
    /\ result = Ok
    /\ (args.value = None \/ args.value = Some("") \/ ~AllHexDigits(args.value[1])) => ret = Some(None)
    /\ ret # Some(None) => (args.value # None /\ args.value # Some("") /\ AllHexDigits(args.value[1]))

\* C29: for every templated key of the mode that the caller overrides, and
\* for every override string, the empty string included, the patch carries
\* the override when its length is that of the template default and the
\* default otherwise; the unit's raw value is never emitted for such a key.
C29_OverrideOrDefault ==
  PatchBuilt =>
    LET patch == ret[1]
        overrides == args.mode_param_overrides
        keys == TemplatedKeys(args.mode_code)
        defaults == ModeTemplate(args.mode_code)
    IN \A i \in 1..Len(keys) : \A j \in 1..Len(overrides) :
         overrides[j][1] = keys[i] =>
           patch[i + 1] = [pn |-> keys[i],
                           pv |-> IF Len(overrides[j][2]) = Len(defaults[i][2])
                                    THEN overrides[j][2] ELSE defaults[i][2]]

\* the logins of a _multireq call that follow one of its batch requests
ForcedLogins(l) == {i \in EventsOf(l, "login") : \E b \in EventsOf(l, "batch") : b < i}

\* C28: a _multireq call in which every batch request failed performed
\* exactly one forced login, after the batch requests of the first pass and
\* before those of the second, and none after the second pass; an exhausted
\* call fails with DaikinApiError whatever a further login would answer.
C28_OneForcedLogin ==
  (/\ op = "refresh" /\ pc = "done"
   /\ result.exc \in {"DaikinApiError", "DaikinAuthError"}
   /\ EventsOf(log, "batch") # {})
  => /\ Cardinality(ForcedLogins(log)) = 1
     /\ \A i \in ForcedLogins(log) :
          /\ \A b \in BatchesOfAttempt(log, 0) : b < i
          /\ \A b \in BatchesOfAttempt(log, 1) : i < b
     /\ BatchesOfAttempt(log, 1) # {} => result.exc = "DaikinApiError"

\* C30: a step of a login that ends the call with DaikinAuthError (failed
\* credential discovery, non-200 status, non-object body, rsc other than
\* 2000, or a response carrying neither an access nor an ID token) leaves
\* the stored access, ID and refresh tokens as they were.
C30_FailedLoginKeepsTokens ==
  [][((Sent("disc") \/ Sent("login_req")) /\ pc' = "done" /\ result'.exc = "DaikinAuthError")
       => UNCHANGED tokenVars
  ]_vars

\* the response items of the status batch
StatusItemsOf(d) == Get(d, "responses", JList(<<>>)).v
ItemPath(item) == Get(item, "fr", JStr("")).v
\* the children of a node that are objects with a non-empty name
NamedChildren(node) ==
  LET pch == Get(node, "pch", JList(<<>>)).v
  IN {i \in 1..Len(pch) : IsDict(pch[i]) /\ Get(pch[i], "pn", JStr("")) \notin {JStr(""), JNull}}
\* the item has a status-suffix path, an object payload and an e_1002 child
HasStatus(item) ==
  /\ IsDict(item)
  /\ \E i \in 1..Len(ItemPath(item)) :
       i + 19 <= Len(ItemPath(item)) /\ SubSeq(ItemPath(item), i, i + 19) = "/adr_0100.dgc_status"
  /\ IsDict(Get(item, "pc", JNull))
  /\ \E i \in NamedChildren(Get(item, "pc", JNull)) :
       Get(Get(Get(item, "pc", JNull), "pch", JNull).v[i], "pn", JNull) = JStr("e_1002")
\* the flat map of an item: "{group}.{param}" -> value for every named
\* parameter with a value of every named group under e_1002, the last
\* occurrence of a key giving its value
FlatOf(item) ==
  LET node == Get(item, "pc", JNull)
      kids == Get(node, "pch", JList(<<>>)).v
      root == kids[CHOOSE i \in NamedChildren(node) :
                     /\ Get(kids[i], "pn", JNull) = JStr("e_1002")
                     /\ \A j \in NamedChildren(node) : Get(kids[j], "pn", JNull) = JStr("e_1002") => i <= j]
      groups == Get(root, "pch", JList(<<>>)).v
      Params(g) == Get(groups[g], "pch", JList(<<>>)).v
      Entries == UNION {{<<g, c>> : c \in {c \in NamedChildren(groups[g]) : Has(Params(g)[c], "pv")}} : g \in NamedChildren(root)}
      Key(x) == Get(groups[x[1]], "pn", JNull).v \o "." \o Get(Params(x[1])[x[2]], "pn", JNull).v
      Later(x, y) == x[1] > y[1] \/ (x[1] = y[1] /\ x[2] >= y[2])
  IN [k \in {Key(x) : x \in Entries} |->
        LET x == CHOOSE x \in Entries : Key(x) = k /\ \A y \in Entries : Key(y) = k => Later(x, y)
        IN Get(Params(x[1])[x[2]], "pv", JNull).v]
\* the unit as discovered, with no status: empty raw_status, typed fields absent
Undecoded(unit) ==
  /\ unit.raw_status = EmptyMap
  /\ unit.power_code = None /\ unit.mode_code = None /\ unit.fan_code = None
  /\ unit.target_temp_c = None /\ unit.room_temp_c = None /\ unit.room_humidity_percent = None
  /\ unit.sensor_temp_1_c = None /\ unit.sensor_temp_2_c = None
StatusFetched == op = "async_fetch_status" /\ pc = "done" /\ result = Ok
\* one read query per requested edge id, and what refresh makes of the map
QueriesAndCache ==
  LET payload == ret[1].requests_payload
      out == ret[1].status_map
      cache == ret[1].units
  IN /\ Len(payload) = Len(args.edge_ids)
     /\ \A e \in DOMAIN new_units :
          Cardinality({i \in 1..Len(payload) :
             payload[i] = [op |-> 2, to |-> "/dsiot/edges/" \o e \o "/adr_0100.dgc_status?filter=pv"]}) = 1
     /\ DOMAIN cache = DOMAIN new_units
     /\ \A e \in DOMAIN cache :
          /\ cache[e].edge_id = e /\ cache[e].name = new_units[e].name /\ cache[e].mac = new_units[e].mac
          /\ e \in DOMAIN out => cache[e].raw_status = out[e]
          /\ e \notin DOMAIN out => Undecoded(cache[e])

\* C24 as stated: async_fetch_status sends one read query per requested
\* edge id and returns one flat map for each response item that has a
\* status-suffix path, an object payload and an e_1002 child; other items
\* produce no entry; refresh keeps a discovered edge without entry in the
\* cache with an empty raw_status and all typed fields absent.
C24_FlatMapPerItem ==
  StatusFetched =>
    LET items == StatusItemsOf(args.data)
        out == ret[1].status_map
        KeyOf(i) == IF Len(Split(ItemPath(items[i]))) >= 4 THEN Split(ItemPath(items[i]))[4] ELSE ItemPath(items[i])
        Q == {i \in 1..Len(items) : HasStatus(items[i])}
        Last == {i \in Q : \A j \in Q : KeyOf(j) = KeyOf(i) => j <= i}
    IN /\ QueriesAndCache
       /\ Cardinality(DOMAIN out) = Cardinality(Last)
       /\ \A i \in Last : \E e \in DOMAIN out : out[e] = FlatOf(items[i])

\* C24, amended: the flat map of an item is returned when moreover the
\* item's path has at least four segments, under the fourth segment as edge
\* id, the last such item of an edge giving its map; an item whose path has
\* the suffix but fewer segments produces no entry.
C24_FlatMapPerEdge ==
  StatusFetched =>
    LET items == StatusItemsOf(args.data)
        out == ret[1].status_map
        Q == {i \in 1..Len(items) : HasStatus(items[i]) /\ Len(Split(ItemPath(items[i]))) >= 4}
        Last == {i \in Q : \A j \in Q : Split(ItemPath(items[j]))[4] = Split(ItemPath(items[i]))[4] => j <= i}
    IN /\ QueriesAndCache
       /\ DOMAIN out = {Split(ItemPath(items[i]))[4] : i \in Q}
       /\ \A i \in Last : out[Split(ItemPath(items[i]))[4]] = FlatOf(items[i])

C24_Witness ==
  /\ StatusFetched /\ args.edge_ids = <<"2", "1">>
  /\ Len(StatusItemsOf(args.data)) = 3
  /\ IsDict(StatusItemsOf(args.data)[1])
  /\ ItemPath(StatusItemsOf(args.data)[1]) = "edges/1/adr_0100.dgc_status"
  /\ DOMAIN ret[1].status_map = {"2"}
  /\ ret[1].status_map["2"] = MapPut(MapPut(EmptyMap, "e_3001.p_02", "30"), "e_3001.p_01", "0200")
  /\ Undecoded(ret[1].units["1"])
  /\ ret[1].units["2"].target_temp_c = Some(240)

\* the events of the login that event i of the log starts: up to the next
\* login or the end of the log
LoginEvents(l, i, k) ==
  {j \in EventsOf(l, k) : i < j /\ \A m \in EventsOf(l, "login") : m > i => j < m}
RequestsBounded ==
  /\ Cardinality(EventsOf(log, "batch")) <= 4
  /\ Cardinality(EventsOf(log, "write")) <= 2
  /\ Cardinality(EventsOf(log, "disc")) <= 8
  /\ \A i \in EventsOf(log, "login") :
       /\ Cardinality(LoginEvents(log, i, "disc")) <= 8
       /\ Cardinality(LoginEvents(log, i, "login_req")) <= 1

\* C27: when the transport answers every request, every call that has
\* started ends (returns or fails); a _multireq call sends at most 4 batch
\* requests and a refresh makes at most two of them (units, then status), a
\* write sends at most 2 write requests, a login at most 8 discovery
\* requests and 1 login request.
C27_CallsTerminate ==
  /\ []RequestsBounded
  /\ [][(pc' = "multireq" /\ pc # "multireq") =>
          \/ pc = "idle" /\ op' = "refresh" /\ phase' = "units"
          \/ op = "refresh" /\ phase = "units" /\ phase' = "status"]_vars
  /\ Running ~> (pc = "done")

C27_Witness ==
  /\ op = "refresh" /\ pc = "done" /\ phase = "status"
  /\ result.exc = "DaikinApiError"
  /\ Cardinality(EventsOf(log, "batch")) = 4
  /\ Cardinality(EventsOf(log, "login_req")) = 2

\* the two coroutines, the running and the suspended one
BothTasks == {Locals, other.locals}

\* C25: while a refresh is in flight, suspended at a request or running,
\* with a write_state interleaved, and after it was cancelled or failed, the
\* cache is the map of before that refresh; every unit of the cache has
\* typed fields that are the decodings of its own raw_status; the cache
\* changes only in the last step of a successful refresh, to the empty map
\* or to the map of the units that refresh discovered, each decoded.
C25_CacheComplete ==
  /\ [](\A t \in BothTasks : (t.op = "refresh" /\ ~(t.pc = "done" /\ t.result = Ok)) => units = t.units_before)
  /\ [](\A e \in DOMAIN units : units[e].edge_id = e /\ Derived(units[e]))
  /\ [][units' # units =>
          /\ op = "refresh" /\ pc = "mr_send" /\ pc' = "done" /\ result' = Ok /\ ret' = Some(units')
          /\ \/ phase = "units" /\ units' = EmptyMap
             \/ /\ phase = "status"
                /\ DOMAIN units' = DOMAIN new_units
                /\ \A e \in DOMAIN units' :
                     /\ units'[e].name = new_units[e].name /\ units'[e].mac = new_units[e].mac
                     /\ units'[e].raw_status = (IF e \in DOMAIN ParseStatus(last_xchg'.data)[1]
                                                  THEN ParseStatus(last_xchg'.data)[1][e] ELSE EmptyMap)]_vars

C25_Witness ==
  /\ op = "write_state" /\ pc = "wr_send" /\ attempt = 1 /\ LastIs(log, "login_req")
  /\ other.locals.op = "refresh" /\ other.locals.pc = "mr_send" /\ other.locals.phase = "status"
  /\ DOMAIN other.locals.new_units = {"1", "2"}
  /\ DOMAIN units = {"1"} /\ units = other.locals.units_before

\* C26: when the host serializes its calls, a batch request that succeeds
\* and locks auth_mode carried the token that is stored for that type; with
\* a refresh and a write_state overlapping, a state is reached in which
\* auth_mode was just locked to a type whose stored token is absent or not
\* the one the server accepted (the witness).
C26_LockNamesStoredToken ==
  [][(other.serialized /\ other' = other /\ Sent("batch") /\ Answered200Object(last_xchg')) =>
       /\ auth_mode' = log'[Len(log')].mode
       /\ (IF auth_mode' = AUTH_MODE_ACCESS_TOKEN THEN access_token' ELSE id_token') = Some(last_xchg'.tok)
  ]_vars

C26_Witness ==
  /\ ~other.serialized
  /\ op = "refresh" /\ pc = "multireq" /\ phase = "status"
  /\ LastIs(log, "batch") /\ Answered200Object(last_xchg)
  /\ auth_mode = log[Len(log)].mode
  /\ StoredToken(auth_mode) # Some(last_xchg.tok)
  /\ other.locals.op = "write_state" /\ other.locals.pc \in SuspensionPoints \cup {"done"}
  /\ \E i \in 1..Len(other.locals.log) : other.locals.log[i].k = "login_req"

\* C31: with the calls made one at a time, a refresh or write_state never
\* fails with "No auth token available."; every batch or write request
\* carries a token that is stored, under the type the request was sent for,
\* when it is sent; and when a batch request is answered 200 with an object
\* body, auth_mode names the type of that request and the first token
\* candidate, the one a write_state sends, is the token just accepted.
C31_RequestsCarryStoredToken ==
  /\ [](op \in {"refresh", "write_state"} => result.msg # "No auth token available.")
  /\ [][(Sent("batch") \/ Sent("write")) =>
          /\ last_xchg'.tok # ""
          /\ StoredToken(log'[Len(log')].mode) = Some(last_xchg'.tok)
          /\ UNCHANGED tokenVars]_vars
  /\ [][(Sent("batch") /\ Answered200Object(last_xchg')) =>
          /\ auth_mode' = log'[Len(log')].mode
          /\ token_candidates(auth_mode', access_token', id_token')[1] = <<auth_mode', last_xchg'.tok>>]_vars

\* a write_state that found no token stored (a login had answered without
\* tokens after the cache was filled), logged in and sent its write with the
\* token of that login
C31_Witness ==
  /\ op = "write_state" /\ pc = "done" /\ result = Ok /\ attempt = 0
  /\ Len(log) > 1 /\ log[1].k = "login" /\ LastIs(log, "write")
  /\ StoredToken(log[Len(log)].mode) = Some(last_xchg.tok)

\* C32: no step of a write_state call, succeeding or failing, changes the
\* unit cache or auth_mode; each write request carries the first token
\* candidate, and after a write request the call ends unless it was the
\* first one and answered 401, which is followed by a login (no request
\* with the second candidate); the cache changes only in a refresh.
C32_WriteLeavesCache ==
  /\ [][(op = "write_state" \/ op' = "write_state") => (units' = units /\ auth_mode' = auth_mode)]_vars
  /\ [][Sent("write") =>
          /\ <<log'[Len(log')].mode, last_xchg'.tok>> = token_candidates(auth_mode, access_token, id_token)[1]
          /\ IF attempt = 0 /\ last_xchg'.status = 401
               THEN pc' = "login" /\ stack' = <<"wr_send">>
               ELSE pc' = "done"]_vars
  /\ [][units' # units => op = "refresh"]_vars

\* a write of mode dry with power off was rejected with both token types
\* stored: one write request was sent, and the cached unit keeps the mode
\* the last refresh gave it
C32_Witness ==
  /\ op = "write_state" /\ pc = "done" /\ result.exc = "DaikinApiError" /\ last_xchg.status = 500
  /\ Len(token_candidates(auth_mode, access_token, id_token)) = 2
  /\ Cardinality(EventsOf(log, "write")) = 1
  /\ edge_id \in DOMAIN units /\ units = units_before
  /\ units[edge_id].mode_code = Some(MODE_CODE_COOL)
  /\ body = WriteBody(units[edge_id], edge_id, FALSE, Some(MODE_CODE_DRY), << <<"p_02", "2C">>, <<"p_27", "0300">> >>)

\* the items of the responses list of a batch body
UnitItemsOf(d) == Get(d, "responses", JList(<<>>)).v
\* an edge node whose identifier is missing, empty or whitespace
BlankEdge(edge) ==
  IsDict(edge) /\ (Has(edge, "ri") => (IsStr(Get(edge, "ri", JNull)) /\ Strip(Get(edge, "ri", JNull).v) = ""))
\* a response item of the edge path that reports blank edges only
BlankItem(item) ==
  /\ IsDict(item) /\ Get(item, "fr", JNull) = JStr("/dsiot/edges")
  /\ LET node == Get(item, "pc", JNull)
     IN \/ BlankEdge(node)
        \/ IsList(node) /\ node.v # <<>> /\ \A i \in 1..Len(node.v) : IsDict(node.v[i]) => BlankEdge(node.v[i])
\* the edge ids a response item yields on its own
IdsOf(item) == DOMAIN ParseUnits(Responses(<<item>>))[1]
\* the shape in which a response item reports its edges
ShapeOf(item) ==
  IF ~IsDict(item) THEN "none"
  ELSE IF Get(item, "fr", JNull) # JStr("/dsiot/edges") THEN "fragment"
  ELSE IF IsList(Get(item, "pc", JNull)) THEN "list" ELSE "node"
SkipBlank(items) == SelectSeq(items, LAMBDA item : ~BlankItem(item))
UnitsFetched == op = "async_fetch_units" /\ pc = "done" /\ result = Ok

\* C33: in the map async_fetch_units returns, every unit is stored under
\* its own edge_id, which is not blank; a response item whose edge
\* identifiers are missing, empty or whitespace yields no unit, alone or
\* among other items; the keys of the map are the edge ids the items yield
\* one by one, so an edge id reported by several items or shapes has one
\* unit.
C33_UnitsKeyedByEdgeId ==
  UnitsFetched =>
    LET items == UnitItemsOf(args.data)
        found == ret[1]
    IN /\ \A e \in DOMAIN found : found[e].edge_id = e /\ Strip(e) # ""
       /\ \A i \in 1..Len(items) : BlankItem(items[i]) => IdsOf(items[i]) = {}
       /\ ret = ParseUnits(Responses(SkipBlank(items)))
       /\ DOMAIN found = UNION {IdsOf(items[i]) : i \in 1..Len(items)}

\* edge 1 reported by a single edge node and by a per-edge fragment, next
\* to an item of blank edges: one unit, with the mac of the later item
C33_Witness ==
  /\ UnitsFetched /\ DOMAIN ret[1] = {"1"} /\ ret[1]["1"].mac = "CC33"
  /\ LET items == UnitItemsOf(args.data)
     IN /\ Len(items) = 3 /\ BlankItem(items[1]) /\ IsList(Get(items[1], "pc", JNull))
        /\ ShapeOf(items[2]) = "node" /\ IdsOf(items[2]) = {"1"}
        /\ ShapeOf(items[3]) = "fragment" /\ IdsOf(items[3]) = {"1"}

\* the integer nearest to twice a temperature given in tenths of a degree
NearestHalfStep(tenths) ==
  CHOOSE h \in (0 - 5)..(MaxHalfSteps + 5) : 2 * tenths - 10 * h < 5 /\ 10 * h - 2 * tenths < 5
UpperHexDigits(s) ==
  \A i \in 1..Len(s) : \E k \in 1..16 : SubSeq(s, i, i) = SubSeq("0123456789ABCDEF", k, k)

\* C34: async_set_temperature returns without a write when the rounded
\* half-step count of the requested temperature is below 0 or above 255;
\* a p_02 override it does write is two upper-case hex digits whose value
\* is that count, which lies in 0..255.
C34_OutOfRangeNotWritten ==
  (op = "async_set_temperature" /\ pc = "done") =>
    LET h == NearestHalfStep(args.temperature)
        p02_hex == ret[1].p02_hex
    IN /\ (h < 0 \/ h > 255) => p02_hex = None
       /\ p02_hex # None =>
            /\ Len(p02_hex[1]) = 2 /\ UpperHexDigits(p02_hex[1])
            /\ HexNumber(p02_hex[1]) = h /\ h \in 0..255

\* 127.8 degrees rounds to 256 half steps: nothing is written
C34_Witness ==
  /\ op = "async_set_temperature" /\ pc = "done" /\ result = Ok
  /\ args.temperature = 1278 /\ NearestHalfStep(args.temperature) = 256
  /\ ret[1].p02_hex = None

\* the parameter nodes written for the group of the given name: the body
\* is requests[0].pc.pch[0] (e_1002), whose children are the groups
WrittenParams(b, group) ==
  LET groups == Get(Get(Get(Get(b, "requests", JNull).v[1], "pc", JNull), "pch", JNull).v[1], "pch", JNull).v
      g == CHOOSE i \in 1..Len(groups) : Get(groups[i], "pn", JNull) = JStr(group)
  IN Get(groups[g], "pch", JNull).v
\* the values written for the parameter key among the nodes, in order
WrittenValues(nodes, key) ==
  LET at == SelectSeq(nodes, LAMBDA n : Get(n, "pn", JNull) = JStr(key))
  IN [i \in 1..Len(at) |-> Get(at[i], "pv", JNull)]
\* the speed codes by name, and the fan-speed key per mode, as tabulated
SpeedCodeOf(fan_mode) ==
  CASE fan_mode = "Auto" -> "0A00" [] fan_mode = "Indoor Unit Quiet" -> "0B00"
    [] fan_mode = "Level 1" -> "0300" [] fan_mode = "Level 2" -> "0400" [] fan_mode = "Level 3" -> "0500"
    [] fan_mode = "Level 4" -> "0600" [] fan_mode = "Level 5" -> "0700" [] OTHER -> ""
OwnFanKey(mode_code) ==
  CASE mode_code = "0200" -> "p_09" [] mode_code = "0500" -> "p_27" [] mode_code = "0000" -> "p_28" [] OTHER -> ""
FanModeSet == op = "async_set_fan_mode" /\ pc = "done"

\* C35: async_set_fan_mode with a known speed name, for a cached unit in
\* mode cool, dry or fan-only, makes one write_state call whose body has
\* power on (e_A002 p_01 = "01"), p_01 of e_3001 equal to the unit's mode
\* code, the mode's own fan-speed key once with the requested speed code,
\* whatever the raw status held for it, and no other mode's fan-speed key.
C35_FanSpeedUnderOwnKey ==
  (/\ FanModeSet /\ SpeedCodeOf(args.fan_mode) # "" /\ args.unit # None
   /\ args.unit[1].mode_code \in {Some("0200"), Some("0500"), Some("0000")}) =>
    LET mode == args.unit[1].mode_code[1]
        patch == WrittenParams(ret[1].body, "e_3001")
    IN /\ ret[1].write # None /\ ret[1].write[1].edge_id = args.unit[1].edge_id
       /\ WrittenValues(WrittenParams(ret[1].body, "e_A002"), "p_01") = <<JStr("01")>>
       /\ WrittenValues(patch, "p_01") = <<JStr(mode)>>
       /\ WrittenValues(patch, OwnFanKey(mode)) = <<JStr(SpeedCodeOf(args.fan_mode))>>
       /\ \A key \in {"p_09", "p_27", "p_28"} \ {OwnFanKey(mode)} : WrittenValues(patch, key) = <<>>

\* a unit in mode dry whose raw status held speeds for all three keys is
\* set to "Indoor Unit Quiet": p_27 is written with 0B00
C35_Witness ==
  /\ FanModeSet /\ args.fan_mode = "Indoor Unit Quiet" /\ args.unit # None
  /\ args.unit[1].mode_code = Some(MODE_CODE_DRY)
  /\ MapGet(args.unit[1].raw_status, "e_3001.p_27") = Some("0500")
  /\ MapGet(args.unit[1].raw_status, "e_3001.p_09") = Some("0400")
  /\ WrittenValues(WrittenParams(ret[1].body, "e_3001"), "p_27") = <<JStr("0B00")>>

====
